---- MODULE Spec2Model ----
(***************************************************************************)
(* A model of three subsystems of bndl:                                    *)
(*   - the job scheduler          (src/bndl/execute/job.py)                *)
(*   - the block manager          (src/bndl/rmi/blocks.py)                 *)
(*   - the peer membership layer  (src/bndl/net/node.py)                   *)
(* Each subsystem has its own specification (SpecSched, SpecBlocks,        *)
(* SpecNet); the variables of the other subsystems stay at their initial   *)
(* value.                                                                  *)
(***************************************************************************)
EXTENDS Integers, Sequences, FiniteSets, TLC

(***************************************************************************)
(* Bounds                                                                  *)
(***************************************************************************)
\* number of tasks of the first stage of the job
NumTasks == 2
\* number of threads that call get_blocks on the node
NumCallers == 2
\* largest number of entries of a discovery message
MaxBatch == 2
\* number of blocks of the block set (block_spec.num_blocks)
NumBlocks == 2
\* number of times remove_blocks is called for the name
MaxRemovals == 1
\* greatest length of the data handed to serve_data
MaxDataLen == 12
\* greatest block_size handed to serve_data
MaxBlockSize == 5

(***************************************************************************)
(* Job scheduler: state                                                    *)
(***************************************************************************)
VARIABLES
    attempts,      \* configured bndl.compute.attempts
    eager,         \* the eager argument of Job.execute
    hints,         \* [stage -> [task -> [preferred, allowed]]] worker hints
    stages,        \* job.stages: len(stage.tasks) of each stage of the job
    jobLife,       \* Lifecycle state of the job
    stageLife,     \* [stage -> Lifecycle state]
    taskLife,      \* [stage -> [task -> Lifecycle state]]
    listeners,     \* stages the job has added _stage_done to
    future,        \* [stage -> [task -> state of task.future]]
    taskWorker,    \* [stage -> [task -> worker the task was dispatched to]]
    cb,            \* [stage -> [task -> next done-callback the I/O thread runs]]
    jobPc,         \* position of the Job.execute generator
    jobIdx,        \* index of the next stage Job.execute yields
    gen,           \* [stage -> position of the Stage.execute generator]
    eagerMode,     \* [stage -> the eager argument of Stage.execute]
    occupied,      \* [stage -> set of workers] (local of _execute_eagerly)
    permits,       \* [stage -> value of the workers_available semaphore]
    to_schedule,   \* [stage -> list of tasks] (local of _execute_eagerly)
    to_yield,      \* [stage -> list of tasks] (local of _execute_eagerly)
    finIdx,        \* [stage -> loop index of the finally clause of Stage.execute]
    exc,           \* [stage -> exception in flight in / raised by Stage.execute]
    active,        \* the stage generator the caller is blocked in (0: none)
    yielded        \* [stage -> results the stage stream yielded to the caller]

schedVars == <<attempts, eager, hints, stages, jobLife, stageLife, taskLife, listeners,
               future, taskWorker, cb, jobPc, jobIdx, gen, eagerMode, occupied,
               permits, to_schedule, to_yield, finIdx, exc, active, yielded>>

(***************************************************************************)
(* Block manager: state. One block-set name is followed, on three kinds of  *)
(* node: the seeder that serves it, worker peers that hold partial copies  *)
(* of it, and the node whose threads call get_blocks.                      *)
(***************************************************************************)
VARIABLES
    worker_peers,  \* self.peers.filter(node_type='worker'): the connected worker peers
    seederBlocks,  \* the seeder's _blocks_cache entry for the name
    specKnown,     \* a BlockSpec for the name has been handed out
    peerCache,     \* [worker peer -> its _blocks_cache entry for the name]
    removals,      \* number of remove_blocks(name, from_peers=True) calls so far
    removeQueue,   \* nodes a _remove_blocks request is in flight to
    cacheRef,      \* _blocks_cache[name]: the list held (0: no entry)
    eventRef,      \* _available_events[name]: the Event held (0: no entry)
    lists,         \* [caller -> the list that caller's _download created]
    eventSet,      \* [caller -> flag of the Event that caller created]
    availLock,     \* the caller holding _available_lock (0: free)
    pc,            \* [caller -> position in get_blocks]
    available,     \* [caller -> the Event its get_blocks holds (0: none)]
    round,         \* [caller -> rounds of the loop of _download done]
    idx,           \* [caller -> block index of the current round]
    local,         \* [caller -> local candidates left for the round]
    remote,        \* [caller -> remote candidates left for the round]
    tried,         \* [caller -> the _get_block requests of the round, in order]
    returned,      \* [caller -> the sequence get_blocks returned, as returned]
    called         \* [caller -> the value of removals when it called get_blocks]

blockVars == <<worker_peers, seederBlocks, specKnown, peerCache, removals, removeQueue, cacheRef,
               eventRef, lists, eventSet, availLock, pc, available, round, idx,
               local, remote, tried, returned, called>>

(***************************************************************************)
(* Peer membership: state. Two nodes, the connections between them and     *)
(* the PeerNode objects at the ends of the connections.                    *)
(***************************************************************************)
VARIABLES
    peers,            \* Node.peers of each node: name -> PeerNode
    peer_table_lock,  \* Node._peer_table_lock of each node: its holder
    is_connected,     \* PeerNode.is_connected of each PeerNode
    conPc             \* where _peer_connected is for each PeerNode

\* one call of Node._discovered(src, discovery) on a node
VARIABLES
    discovery,  \* discovery.peers: the names of the batch, in order
    discPc,     \* where the call of _discovered is
    discIdx,    \* the entry of the batch the loop is at
    handled     \* what the loop did with the entries it went through, in order

discVars == <<discovery, discPc, discIdx, handled>>

\* one call of Node.stop() on a node
VARIABLES
    stopPc,         \* where the call of stop is
    to_disconnect,  \* list(self.peers.values()): the peers the first loop has left
    server_open,    \* the server of the node is open
    tasksDone,      \* the _notifiy_peers tasks that have ended and left _iotasks
    tasksCancelled  \* the tasks task.cancel() was called on

stopVars == <<stopPc, to_disconnect, server_open, tasksDone, tasksCancelled>>

\* one call of Node._start_tcp_server(address, parsed)
VARIABLES
    parsed_port,  \* parsed.port: the port the configured address names, or None
    unbindable,   \* how many ports, from the first one probed, cannot be bound
    bind_errno,   \* the errno of the OSError a port that cannot be bound raises
    startPc,      \* where the call of _start_tcp_server is
    port,         \* the loop variable port
    server,       \* the local variable server
    probes,       \* the calls of asyncio.start_server made
    logged,       \* logger.exception('unable to open server socket') was called
    servers       \* self.servers: address -> server

startVars == <<parsed_port, unbindable, bind_errno, startPc, port, server, probes,
               logged, servers>>

netVars == <<peers, peer_table_lock, is_connected, conPc, discVars, stopVars, startVars>>

(***************************************************************************)
(* serve_data: state. One call of serve_data(name, data, block_size).      *)
(***************************************************************************)
VARIABLES
    data,        \* the bytes handed to serve_data
    block_size,  \* the block size handed to serve_data
    served,      \* the blocks handed to serve_blocks
    block_spec,  \* the BlockSpec that serve_data returned
    servePc      \* where the call of serve_data is

serveVars == <<data, block_size, served, block_spec, servePc>>

vars == <<schedVars, blockVars, netVars, serveVars>>

\* the list of workers handed to Job.execute
Workers == <<"w1", "w2">>
WorkerSet == {Workers[i] : i \in DOMAIN Workers}
NoWorker == "none"

\* job.stages: a job has at most two stages
Stages == {1, 2}
\* the index of self.stages[-1]
LastStage == Len(stages)

\* len(stage.tasks)
StageSize(s) == IF s <= Len(stages) THEN stages[s] ELSE 0
MaxStageSize == IF NumTasks > 1 THEN NumTasks ELSE 1
TaskIds(s) == 1..StageSize(s)
TaskSlots == 1..MaxStageSize

NoError == <<"none">>
CancelledError == <<"CancelledError">>
\* the exception a failed task's future holds
TaskError(s, t) == <<"error", s, t>>
\* the value a task returns
TaskResult(s, t) == <<"result", s, t>>

Last(seq) == seq[Len(seq)]
Front(seq) == SubSeq(seq, 1, Len(seq) - 1)
Reverse(seq) == [i \in 1..Len(seq) |-> seq[Len(seq) + 1 - i]]

(***************************************************************************)
(* Lifecycle (bndl.util.lifecycle)                                         *)
(***************************************************************************)
NewLife == [started |-> FALSE, stopped |-> FALSE, cancelled |-> FALSE]
signal_start(l) == [l EXCEPT !.started = TRUE]
signal_stop(l) == [l EXCEPT !.stopped = TRUE]
LifeCancel(l) == [l EXCEPT !.cancelled = TRUE]
running(l) == l.started /\ ~l.stopped
stopped(l) == l.stopped

(***************************************************************************)
(* Task                                                                    *)
(***************************************************************************)
\* Future.done(): finished, failed or cancelled
FutureDone(f) == f \in {"done", "failed", "cancelled"}

\* Task.done
TaskDone(s, t) == future[s][t] # "none" /\ FutureDone(future[s][t])

\* the tasks of stage s that Task.cancel, called on each task of ts, cancels the
\* pending future of
CancelHits(s, ts) == {t \in ts : future[s][t] = "pending"}

\* Task.cancel on every task of ts: Lifecycle.cancel, then future.cancel() if
\* there is a future. Cancelling a pending future runs its done callbacks in
\* the cancelling thread: Task.signal_stop and, in eager mode, task_done.
CancelTasks(s, ts) ==
    LET hit == CancelHits(s, ts) IN
    /\ taskLife' = [taskLife EXCEPT ![s] = [t \in TaskSlots |->
            IF t \in hit THEN signal_stop(LifeCancel(taskLife[s][t]))
            ELSE IF t \in ts THEN LifeCancel(taskLife[s][t])
            ELSE taskLife[s][t]]]
    /\ future' = [future EXCEPT ![s] = [t \in TaskSlots |->
            IF t \in hit THEN "cancelled" ELSE future[s][t]]]
    /\ permits' = [permits EXCEPT ![s] =
            IF eagerMode[s] THEN @ + Cardinality(hit) ELSE @]
    /\ occupied' = [occupied EXCEPT ![s] =
            IF eagerMode[s] THEN @ \ {taskWorker[s][t] : t \in hit} ELSE @]

(***************************************************************************)
(* Job.execute                                                             *)
(***************************************************************************)
CancelStages_flags(ss) ==
    /\ stageLife' = [s \in Stages |->
            IF s \in ss THEN LifeCancel(stageLife[s]) ELSE stageLife[s]]
    /\ UNCHANGED <<taskLife, future, permits, occupied>>

\* Stage.cancel of every stage of ss that has not stopped (the finally clause
\* of Job.execute): Lifecycle.cancel, then Task.cancel of every task
CancelStages(ss) ==
    /\ stageLife' = [s \in Stages |->
            IF s \in ss THEN LifeCancel(stageLife[s]) ELSE stageLife[s]]
    /\ taskLife' = [s \in Stages |-> [t \in TaskSlots |->
            IF s \in ss /\ t \in TaskIds(s)
            THEN IF future[s][t] = "pending"
                 THEN signal_stop(LifeCancel(taskLife[s][t]))
                 ELSE LifeCancel(taskLife[s][t])
            ELSE taskLife[s][t]]]
    /\ future' = [s \in Stages |-> [t \in TaskSlots |->
            IF s \in ss /\ t \in TaskIds(s) /\ future[s][t] = "pending"
            THEN "cancelled" ELSE future[s][t]]]
    /\ permits' = [s \in Stages |->
            IF s \in ss /\ eagerMode[s]
            THEN permits[s] + Cardinality(CancelHits(s, TaskIds(s)))
            ELSE permits[s]]
    /\ occupied' = [s \in Stages |->
            IF s \in ss /\ eagerMode[s]
            THEN occupied[s] \ {taskWorker[s][t] : t \in CancelHits(s, TaskIds(s))}
            ELSE occupied[s]]

\* whether the loop of Job.execute yields the stream of another stage
JobYieldsStage(life) == jobIdx <= LastStage /\ running(life)

\* the caller advances the generator Job.execute returned; the generator runs
\* to its next yield or to its end
StageEager_flag(s) == eager

\* Job.execute: the eager argument of stage.execute, stage != self.stages[-1] or eager
StageEager(s) == s # LastStage \/ eager

JobNext ==
    /\ active = 0
    /\ jobPc # "finished"
    /\ LET life == IF jobPc = "new" THEN signal_start(jobLife) ELSE jobLife IN
       /\ jobLife' = life
       /\ IF JobYieldsStage(life)
          THEN /\ listeners' = listeners \cup {jobIdx}
               /\ gen' = [gen EXCEPT ![jobIdx] = "created"]
               /\ eagerMode' = [eagerMode EXCEPT ![jobIdx] = StageEager(jobIdx)]
               /\ jobIdx' = jobIdx + 1
               /\ jobPc' = "suspended"
               /\ UNCHANGED <<stageLife, taskLife, future, permits, occupied>>
          ELSE /\ CancelStages({s \in 1..LastStage : ~stopped(stageLife[s])})
               /\ jobPc' = "finished"
               /\ UNCHANGED <<listeners, gen, eagerMode, jobIdx>>
    /\ UNCHANGED <<serveVars, netVars, blockVars, attempts, eager, hints, stages, taskWorker, cb, to_schedule, to_yield,
                   finIdx, exc, active, yielded>>

(***************************************************************************)
(* Job.cancel and Stage.cancel                                             *)
(***************************************************************************)
\* Stage.cancel of a stage of the job, called from outside the generators:
\* Lifecycle.cancel, then Task.cancel of every task of the stage
StageCancel(s) ==
    /\ s <= LastStage
    /\ ~stageLife[s].cancelled
    /\ CancelStages({s})
    /\ UNCHANGED <<serveVars, netVars, blockVars, attempts, eager, hints, stages, jobLife, listeners, taskWorker,
                   cb, jobPc, jobIdx, gen, eagerMode, to_schedule, to_yield,
                   finIdx, exc, active, yielded>>

\* Job.cancel, called from outside the generators: Lifecycle.cancel, then
\* Stage.cancel of every stage of the job
JobCancel ==
    /\ ~jobLife.cancelled
    /\ jobLife' = LifeCancel(jobLife)
    /\ CancelStages(1..LastStage)
    /\ UNCHANGED <<serveVars, netVars, blockVars, attempts, eager, hints, stages, listeners, taskWorker,
                   cb, jobPc, jobIdx, gen, eagerMode, to_schedule, to_yield,
                   finIdx, exc, active, yielded>>

(***************************************************************************)
(* Stage.execute                                                           *)
(***************************************************************************)
\* self.tasks[::-1]
ReversedTasks(s) == Reverse([i \in TaskIds(s) |-> i])

ToYieldCopy_sorted(queue) == Reverse(queue)
\* to_schedule[:]
ToYieldCopy(queue) == queue

\* the caller advances the stream of stage s: on the first call the generator
\* signals start and enters _execute_eagerly or _execute_onebyone
StageNext(s) ==
    /\ active = 0
    /\ gen[s] \in {"created", "suspended"}
    /\ active' = s
    /\ IF gen[s] = "created"
       THEN /\ stageLife' = [stageLife EXCEPT ![s] = signal_start(@)]
            /\ occupied' = [occupied EXCEPT ![s] = {}]
            /\ permits' = [permits EXCEPT ![s] = Len(Workers)]
            /\ to_schedule' = [to_schedule EXCEPT ![s] =
                    IF eagerMode[s] THEN ReversedTasks(s) ELSE <<>>]
            /\ to_yield' = [to_yield EXCEPT ![s] =
                    IF eagerMode[s] THEN ToYieldCopy(ReversedTasks(s)) ELSE <<>>]
       ELSE UNCHANGED <<stageLife, occupied, permits, to_schedule, to_yield>>
    /\ gen' = [gen EXCEPT ![s] = IF eagerMode[s] THEN "loop" ELSE "obo"]
    /\ UNCHANGED <<serveVars, netVars, blockVars, attempts, eager, hints, stages, jobLife, taskLife, listeners, future,
                   taskWorker, cb, jobPc, jobIdx, eagerMode, finIdx, exc, yielded>>

\* the first worker of seq that is not in occ
RECURSIVE FirstFree(_, _)
FirstFree(seq, occ) ==
    IF seq = <<>> THEN NoWorker
    ELSE IF Head(seq) \notin occ THEN Head(seq)
    ELSE FirstFree(Tail(seq), occ)

ChooseWorker_any(s, t, occ) ==
    FirstFree(hints[s][t].preferred \o
              (IF hints[s][t].allowed # <<>> THEN hints[s][t].allowed ELSE Workers),
              {})

\* the scan of chain(preferred_workers or (), allowed_workers or workers)
ChooseWorker(s, t, occ) ==
    FirstFree(hints[s][t].preferred \o
              (IF hints[s][t].allowed # <<>> THEN hints[s][t].allowed ELSE Workers),
              occ)

\* Task.execute(worker): signal_start and a fresh pending future
TaskExecute(s, t, w) ==
    /\ taskLife' = [taskLife EXCEPT ![s][t] = signal_start(@)]
    /\ future' = [future EXCEPT ![s][t] = "pending"]
    /\ taskWorker' = [taskWorker EXCEPT ![s][t] = w]

Popped_kept(queue) == queue

\* to_schedule after task = to_schedule.pop()
Popped(queue) == Front(queue)

\* _execute_eagerly, the scheduling half of a loop iteration: acquire a permit,
\* pop a task, start it on the first free eligible worker or put it back
EagerSchedule(s) ==
    /\ active = s
    /\ gen[s] = "loop"
    /\ to_yield[s] # <<>>
    /\ to_schedule[s] # <<>>
    /\ permits[s] > 0
    /\ LET t == Last(to_schedule[s])
           w == ChooseWorker(s, t, occupied[s])
       IN  IF w # NoWorker
           THEN /\ occupied' = [occupied EXCEPT ![s] = @ \cup {w}]
                /\ TaskExecute(s, t, w)
                /\ to_schedule' = [to_schedule EXCEPT ![s] = Popped(@)]
           ELSE /\ to_schedule' = [to_schedule EXCEPT ![s] = <<t>> \o Popped(@)]
                /\ UNCHANGED <<occupied, taskLife, future, taskWorker>>
    /\ permits' = [permits EXCEPT ![s] = @ - 1]
    /\ gen' = [gen EXCEPT ![s] = "check"]
    /\ UNCHANGED <<serveVars, netVars, blockVars, attempts, eager, hints, stages, jobLife, stageLife, listeners, cb, jobPc,
                   jobIdx, eagerMode, to_yield, finIdx, exc, active, yielded>>

TakeResult_swallow(s, t) ==
    /\ yielded' = [yielded EXCEPT ![s] = Append(@, TaskResult(s, t))]
    /\ gen' = [gen EXCEPT ![s] = "suspended"]
    /\ active' = 0
    /\ UNCHANGED exc

\* Task.result of task t of stage s, taken by the stream of stage s: the result
\* is yielded to the caller, or the future's exception is raised in the stream
TakeResult(s, t) ==
    IF future[s][t] = "done"
    THEN /\ yielded' = [yielded EXCEPT ![s] = Append(@, TaskResult(s, t))]
         /\ gen' = [gen EXCEPT ![s] = "suspended"]
         /\ active' = 0
         /\ UNCHANGED exc
    ELSE /\ exc' = [exc EXCEPT ![s] =
                IF future[s][t] = "failed" THEN TaskError(s, t) ELSE CancelledError]
         /\ gen' = [gen EXCEPT ![s] = "except"]
         /\ UNCHANGED <<yielded, active>>

\* whether the yielding half of a loop iteration takes the result of the head
\* of to_yield: without blocking while tasks remain to be scheduled
EagerTakes(s) ==
    LET t == Last(to_yield[s]) IN
    /\ future[s][t] # "none"
    /\ TaskDone(s, t)

\* _execute_eagerly, the yielding half of a loop iteration
EagerCheck(s) ==
    /\ active = s
    /\ \/ gen[s] = "check"
       \/ gen[s] = "loop" /\ to_yield[s] # <<>> /\ to_schedule[s] = <<>>
    /\ LET t == Last(to_yield[s]) IN
       IF EagerTakes(s)
       THEN /\ to_yield' = [to_yield EXCEPT ![s] = Front(@)]
            /\ TakeResult(s, t)
       ELSE \* result() blocks when nothing is left to schedule
            /\ (future[s][t] = "none" \/ to_schedule[s] # <<>>)
            /\ gen' = [gen EXCEPT ![s] = "loop"]
            /\ UNCHANGED <<to_yield, yielded, active, exc>>
    /\ UNCHANGED <<serveVars, netVars, blockVars, attempts, eager, hints, stages, jobLife, stageLife, taskLife, listeners,
                   future, taskWorker, cb, jobPc, jobIdx, eagerMode, occupied,
                   permits, to_schedule, finIdx>>

\* the worker _execute_onebyone picks for task t
OneByOneWorker(s, t) ==
    IF hints[s][t].preferred # <<>> THEN hints[s][t].preferred[1]
    ELSE IF hints[s][t].allowed # <<>> THEN hints[s][t].allowed[1]
    ELSE Workers[1]

\* _execute_onebyone: dispatch the next task
OneByOneDispatch(s) ==
    /\ active = s
    /\ gen[s] = "obo"
    /\ Len(yielded[s]) < StageSize(s)
    /\ LET t == Len(yielded[s]) + 1 IN
       TaskExecute(s, t, OneByOneWorker(s, t))
    /\ gen' = [gen EXCEPT ![s] = "obowait"]
    /\ UNCHANGED <<serveVars, netVars, blockVars, attempts, eager, hints, stages, jobLife, stageLife, listeners, cb, jobPc,
                   jobIdx, eagerMode, occupied, permits, to_schedule, to_yield,
                   finIdx, exc, active, yielded>>

\* _execute_onebyone: future.result() of the task just dispatched
OneByOneResult(s) ==
    /\ active = s
    /\ gen[s] = "obowait"
    /\ LET t == Len(yielded[s]) + 1 IN
       /\ FutureDone(future[s][t])
       /\ TakeResult(s, t)
    /\ UNCHANGED <<serveVars, netVars, blockVars, attempts, eager, hints, stages, jobLife, stageLife, taskLife, listeners,
                   future, taskWorker, cb, jobPc, jobIdx, eagerMode, occupied,
                   permits, to_schedule, to_yield, finIdx>>

\* _execute_eagerly or _execute_onebyone returns: Stage.execute enters its
\* finally clause without an exception
StageReturn(s) ==
    /\ active = s
    /\ \/ gen[s] = "loop" /\ to_yield[s] = <<>>
       \/ gen[s] = "obo" /\ Len(yielded[s]) = StageSize(s)
    /\ gen' = [gen EXCEPT ![s] = "finally"]
    /\ finIdx' = [finIdx EXCEPT ![s] = 1]
    /\ UNCHANGED <<serveVars, netVars, blockVars, attempts, eager, hints, stages, jobLife, stageLife, taskLife, listeners,
                   future, taskWorker, cb, jobPc, jobIdx, eagerMode, occupied,
                   permits, to_schedule, to_yield, exc, active, yielded>>

StageExcept_noflag(s) ==
    /\ active = s
    /\ gen[s] = "except"
    /\ gen' = [gen EXCEPT ![s] = "finally"]
    /\ finIdx' = [finIdx EXCEPT ![s] = 1]
    /\ UNCHANGED <<serveVars, netVars, blockVars, attempts, eager, hints, stages, jobLife, stageLife, taskLife, listeners,
                   future, taskWorker, cb, jobPc, jobIdx, eagerMode, occupied,
                   permits, to_schedule, to_yield, exc, active, yielded>>

\* the except clause of Stage.execute
StageExcept(s) ==
    /\ active = s
    /\ gen[s] = "except"
    /\ stageLife' = [stageLife EXCEPT ![s].cancelled = TRUE]
    /\ gen' = [gen EXCEPT ![s] = "finally"]
    /\ finIdx' = [finIdx EXCEPT ![s] = 1]
    /\ UNCHANGED <<serveVars, netVars, blockVars, attempts, eager, hints, stages, jobLife, taskLife, listeners, future,
                   taskWorker, cb, jobPc, jobIdx, eagerMode, occupied, permits,
                   to_schedule, to_yield, exc, active, yielded>>

FinallyCancels_none(s, t) == {}

\* the tasks the finally clause of Stage.execute cancels when it reaches t
FinallyCancels(s, t) == IF stopped(taskLife[s][t]) THEN {} ELSE {t}

\* the finally clause of Stage.execute, one iteration of its loop
StageFinallyTask(s) ==
    /\ active = s
    /\ gen[s] = "finally"
    /\ finIdx[s] <= StageSize(s)
    /\ CancelTasks(s, FinallyCancels(s, finIdx[s]))
    /\ finIdx' = [finIdx EXCEPT ![s] = @ + 1]
    /\ UNCHANGED <<serveVars, netVars, blockVars, attempts, eager, hints, stages, jobLife, stageLife, listeners, taskWorker,
                   cb, jobPc, jobIdx, gen, eagerMode, to_schedule, to_yield, exc,
                   active, yielded>>

IsLastStage_any(s) == TRUE

\* Job._stage_done: stage == self.stages[-1]
IsLastStage(s) == s = LastStage

StageDoneStopsJob_never(s) == FALSE

\* Job._stage_done, called with a stage that just signalled stop
StageDoneStopsJob(s) == s \in listeners /\ IsLastStage(s)

\* the finally clause of Stage.execute: signal_stop, which calls the listener
\* Job._stage_done; the generator ends and a pending exception reaches the caller
StageFinallyStop(s) ==
    /\ active = s
    /\ gen[s] = "finally"
    /\ finIdx[s] > StageSize(s)
    /\ stageLife' = [stageLife EXCEPT ![s] = signal_stop(@)]
    /\ jobLife' = IF StageDoneStopsJob(s) THEN signal_stop(jobLife) ELSE jobLife
    /\ gen' = [gen EXCEPT ![s] = "finished"]
    /\ active' = 0
    /\ UNCHANGED <<serveVars, netVars, blockVars, attempts, eager, hints, stages, taskLife, listeners, future, taskWorker,
                   cb, jobPc, jobIdx, eagerMode, occupied, permits, to_schedule,
                   to_yield, finIdx, exc, yielded>>

(***************************************************************************)
(* Completion of tasks, on the I/O thread                                  *)
(***************************************************************************)
\* the I/O thread is between the completion of a future and the end of that
\* future's done callbacks
IoBusy == \E s \in Stages, t \in TaskSlots : cb[s][t] # "none"

\* the response of the worker for task t arrives: the I/O thread (the node's one
\* event loop) gives the future its result or its exception and then runs the
\* future's done callbacks
TaskComplete(s, t, ok) ==
    /\ ~IoBusy
    /\ future[s][t] = "pending"
    /\ future' = [future EXCEPT ![s][t] = IF ok THEN "done" ELSE "failed"]
    /\ cb' = [cb EXCEPT ![s][t] = "stop"]
    /\ UNCHANGED <<serveVars, netVars, blockVars, attempts, eager, hints, stages, jobLife, stageLife, taskLife, listeners,
                   taskWorker, jobPc, jobIdx, gen, eagerMode, occupied, permits,
                   to_schedule, to_yield, finIdx, exc, active, yielded>>

\* the done callback Task.execute added: signal_stop
CallbackStop(s, t) ==
    /\ cb[s][t] = "stop"
    /\ taskLife' = [taskLife EXCEPT ![s][t] = signal_stop(@)]
    /\ cb' = [cb EXCEPT ![s][t] = IF eagerMode[s] THEN "release" ELSE "none"]
    /\ UNCHANGED <<serveVars, netVars, blockVars, attempts, eager, hints, stages, jobLife, stageLife, listeners, future,
                   taskWorker, jobPc, jobIdx, gen, eagerMode, occupied, permits,
                   to_schedule, to_yield, finIdx, exc, active, yielded>>

\* task_done: workers_available.release()
CallbackRelease(s, t) ==
    /\ cb[s][t] = "release"
    /\ permits' = [permits EXCEPT ![s] = @ + 1]
    /\ cb' = [cb EXCEPT ![s][t] = "remove"]
    /\ UNCHANGED <<serveVars, netVars, blockVars, attempts, eager, hints, stages, jobLife, stageLife, taskLife, listeners,
                   future, taskWorker, jobPc, jobIdx, gen, eagerMode, occupied,
                   to_schedule, to_yield, finIdx, exc, active, yielded>>

\* task_done: occupied.remove(worker)
CallbackRemove(s, t) ==
    /\ cb[s][t] = "remove"
    /\ occupied' = [occupied EXCEPT ![s] = @ \ {taskWorker[s][t]}]
    /\ cb' = [cb EXCEPT ![s][t] = "none"]
    /\ UNCHANGED <<serveVars, netVars, blockVars, attempts, eager, hints, stages, jobLife, stageLife, taskLife, listeners,
                   future, taskWorker, jobPc, jobIdx, gen, eagerMode, permits,
                   to_schedule, to_yield, finIdx, exc, active, yielded>>

(***************************************************************************)
(* Job scheduler: specification                                            *)
(***************************************************************************)
NoHints == [preferred |-> <<>>, allowed |-> <<>>]
\* the worker hints a task of the first stage may carry
HintChoices == {NoHints,
                [preferred |-> <<>>, allowed |-> <<"w1">>],
                [preferred |-> <<"w2">>, allowed |-> <<"w1">>]}

\* the state of a job, its stages and its tasks after construction
SchedStart ==
    /\ jobLife = NewLife
    /\ stageLife = [s \in Stages |-> NewLife]
    /\ taskLife = [s \in Stages |-> [t \in TaskSlots |-> NewLife]]
    /\ listeners = {}
    /\ future = [s \in Stages |-> [t \in TaskSlots |-> "none"]]
    /\ taskWorker = [s \in Stages |-> [t \in TaskSlots |-> NoWorker]]
    /\ cb = [s \in Stages |-> [t \in TaskSlots |-> "none"]]
    /\ jobPc = "new"
    /\ jobIdx = 1
    /\ gen = [s \in Stages |-> "none"]
    /\ eagerMode = [s \in Stages |-> TRUE]
    /\ occupied = [s \in Stages |-> {}]
    /\ permits = [s \in Stages |-> 0]
    /\ to_schedule = [s \in Stages |-> <<>>]
    /\ to_yield = [s \in Stages |-> <<>>]
    /\ finIdx = [s \in Stages |-> 1]
    /\ exc = [s \in Stages |-> NoError]
    /\ active = 0
    /\ yielded = [s \in Stages |-> <<>>]

\* a job of two stages: the last stage has a single task
TwoStages == <<NumTasks, 1>>

SchedInit ==
    /\ stages = TwoStages
    /\ attempts \in {1, 2}
    /\ eager \in BOOLEAN
    /\ hints \in {h \in [Stages -> [TaskSlots -> HintChoices]] :
                    \A s \in Stages, t \in TaskSlots :
                        (s # 1 \/ t \notin TaskIds(s)) => h[s][t] = NoHints}
    /\ SchedStart

\* the scheduler with no job submitted
SchedIdle ==
    /\ stages = TwoStages
    /\ attempts = 1
    /\ eager = TRUE
    /\ hints = [s \in Stages |-> [t \in TaskSlots |-> NoHints]]
    /\ SchedStart

SchedNext ==
    \/ JobNext
    \/ \E s \in Stages : StageNext(s)
    \/ \E s \in Stages : EagerSchedule(s)
    \/ \E s \in Stages : EagerCheck(s)
    \/ \E s \in Stages : OneByOneDispatch(s)
    \/ \E s \in Stages : OneByOneResult(s)
    \/ \E s \in Stages : StageReturn(s)
    \/ \E s \in Stages : StageExcept(s)
    \/ \E s \in Stages : StageFinallyTask(s)
    \/ \E s \in Stages : StageFinallyStop(s)
    \/ \E s \in Stages, t \in TaskSlots, ok \in BOOLEAN : TaskComplete(s, t, ok)
    \/ \E s \in Stages, t \in TaskSlots : CallbackStop(s, t)
    \/ \E s \in Stages, t \in TaskSlots : CallbackRelease(s, t)
    \/ \E s \in Stages, t \in TaskSlots : CallbackRemove(s, t)


\* the jobs that are executed and cancelled: no stage, a stage without tasks
\* alone, first or last, and two stages with tasks, the larger one first or last
JobShapes == {<<>>, <<0>>, <<0, 1>>, <<NumTasks, 0>>, <<1, NumTasks>>, TwoStages}

JobsInit ==
    /\ stages \in JobShapes
    /\ attempts = 1
    /\ eager \in BOOLEAN
    /\ hints = [s \in Stages |-> [t \in TaskSlots |-> NoHints]]
    /\ SchedStart

\* the job is executed, and it or its stages are cancelled at any moment
JobsNext ==
    \/ SchedNext
    \/ JobCancel
    \/ \E s \in Stages : StageCancel(s)

(***************************************************************************)
(* Job scheduler: properties                                               *)
(***************************************************************************)
\* the exceptions that are the failure of a task of stage s
TaskErrors(s) == {TaskError(s, t) : t \in TaskIds(s)}

\* C1: within a stage the stream yields the results in task-index order: the
\* i-th result the caller received from stage s is the result of task i,
\* whatever order the tasks completed or were dispatched in.
C1_YieldsInTaskOrder ==
    \A s \in Stages : \A i \in 1..Len(yielded[s]) : yielded[s][i] = TaskResult(s, i)

\* C1, its case: the first stage yielded all its results although a task was
\* put back for want of a free eligible worker (its permit is never released)
C1_Witness ==
    /\ gen[1] = "finished"
    /\ exc[1] = NoError
    /\ Len(yielded[1]) = NumTasks
    /\ NumTasks > 1
    /\ \A t \in TaskIds(1) : cb[1][t] = "none"
    /\ permits[1] < Len(Workers)

\* a step dispatches task t of stage s to a worker
Dispatches(s, t) == future[s][t] = "none" /\ future'[s][t] = "pending"

\* every result of stage s has been yielded, or stage s has been cancelled
StageDelivered(s) == Len(yielded[s]) = StageSize(s) \/ stageLife[s].cancelled

\* C2 as stated: no task of stage N+1 is dispatched before every result of
\* stage N has been yielded or stage N has been cancelled, in whatever order the
\* caller advances the streams.
C2_StagesInOrder ==
    [][\A s \in Stages, t \in TaskSlots :
          (s > 1 /\ Dispatches(s, t)) => StageDelivered(s - 1)]_vars

\* C2 amended: no task of stage N+1 is dispatched before every result of stage
\* N has been yielded or stage N has been cancelled, provided the caller ran the
\* stream of stage N to its end before it advanced the stream of stage N+1.
C2_StagesInOrderWhenExhausted ==
    [][\A s \in Stages, t \in TaskSlots :
          (s > 1 /\ Dispatches(s, t) /\ gen[s - 1] = "finished")
              => StageDelivered(s - 1)]_vars

\* C2, its case: the task of the second stage is dispatched after the stream of
\* the first stage raised the failure of one of its tasks
C2_Witness ==
    /\ future[2][1] = "pending"
    /\ gen[1] = "finished"
    /\ exc[1] \in TaskErrors(1)
    /\ Len(yielded[1]) < NumTasks

\* the number of attempts of task t of stage s that failed
FailedAttempts(s, t) == IF future[s][t] = "failed" THEN 1 ELSE 0

\* C3: a task that failed fewer than `attempts` times does not fail the stage:
\* the stream raises the failure of a task only when its attempts are used up.
C3_RetryBelowAttempts ==
    \A s \in Stages : \A t \in TaskIds(s) :
        exc[s] = TaskError(s, t) => FailedAttempts(s, t) >= attempts

\* C4: with attempts = 1, a stream that ended at a failed task raised that
\* task's own error, and what it yielded before are the results of the tasks
\* before it, in task order.
C4_FailureRaisedInOrder ==
    attempts = 1 =>
        \A s \in Stages : gen[s] = "finished" =>
            LET n == Len(yielded[s]) IN
            /\ \A i \in 1..n : yielded[s][i] = TaskResult(s, i) /\ future[s][i] = "done"
            /\ (n < StageSize(s) /\ future[s][n + 1] = "failed")
                    => exc[s] = TaskError(s, n + 1)
            /\ \A t \in TaskIds(s) :
                    exc[s] = TaskError(s, t) => (t = n + 1 /\ future[s][t] = "failed")

\* C4, its case: the second task failed; the first result was yielded and the
\* failure reached the caller
C4_Witness ==
    /\ attempts = 1
    /\ NumTasks > 1
    /\ gen[1] = "finished"
    /\ exc[1] = TaskError(1, 2)
    /\ yielded[1] = <<TaskResult(1, 1)>>

\* C5: once a stage whose stream raised a task failure has signalled stop, the
\* stage is marked cancelled, no future of the stage is still pending and every
\* task that had not stopped has been cancelled.
C5_FailureCancelsTasks ==
    \A s \in Stages :
        (stopped(stageLife[s]) /\ exc[s] \in TaskErrors(s)) =>
            /\ stageLife[s].cancelled
            /\ \A t \in TaskIds(s) :
                /\ future[s][t] # "pending"
                /\ stopped(taskLife[s][t]) \/ taskLife[s][t].cancelled

\* C5, its case: the first task failed while the second was running; the second
\* task's future is cancelled when the stage signals stop
C5_Witness ==
    /\ NumTasks > 1
    /\ stopped(stageLife[1])
    /\ exc[1] = TaskError(1, 1)
    /\ future[1][2] = "cancelled"
    /\ taskLife[1][2].cancelled

\* C20: a task that has allowed_workers is only ever dispatched to one of
\* its allowed_workers, in eager mode and in one-by-one mode.
C20_OnlyAllowedWorkers ==
    \A s \in Stages : \A t \in 1..StageSize(s) :
        (taskWorker[s][t] # NoWorker /\ hints[s][t].allowed # <<>>)
            => \E k \in DOMAIN hints[s][t].allowed :
                   hints[s][t].allowed[k] = taskWorker[s][t]

\* the tasks of stage s that are in flight: dispatched, and their future is
\* still pending
InFlight(s) == {t \in TaskIds(s) : future[s][t] = "pending"}

\* C21: in eager mode no two tasks of a stage are in flight on the same
\* worker, and the number of tasks in flight never exceeds the number of
\* workers, wherever the done callbacks of the tasks are between the release
\* of the permit and the removal of the worker from occupied.
C21_NoWorkerOversubscribed ==
    \A s \in Stages : eagerMode[s] =>
        /\ \A t \in InFlight(s) : \A u \in InFlight(s) \ {t} :
                taskWorker[s][t] # taskWorker[s][u]
        /\ Cardinality(InFlight(s)) <= Len(Workers)

\* C21, its case: the second task was dispatched while the done callback of
\* the first had released the permit and not yet removed the worker from
\* occupied; it went to the other worker
C21_Witness ==
    /\ NumTasks > 1
    /\ eagerMode[1]
    /\ cb[1][1] = "remove"
    /\ taskWorker[1][1] \in occupied[1]
    /\ future[1][2] = "pending"
    /\ taskWorker[1][2] # taskWorker[1][1]
    /\ permits[1] = Len(Workers) - 1

\* a step in which Job.cancel is called
JobCancels == jobLife'.cancelled /\ ~jobLife.cancelled
\* a step in which Stage.cancel of stage s is called: the stage becomes
\* cancelled where its generator is (the except clause of Stage.execute sets
\* the flag on its way to the finally clause)
StageCancels(s) ==
    /\ stageLife'[s].cancelled
    /\ ~stageLife[s].cancelled
    /\ gen'[s] = gen[s]
\* a step in which Task.cancel of task t of stage s is called
TaskCancels(s, t) == taskLife'[s][t].cancelled /\ ~taskLife[s][t].cancelled

NoneDispatched == \A s \in Stages : \A t \in TaskSlots : future[s][t] = "none"
\* the generators of the job and of its stages have run to their end
JobEnded ==
    /\ jobPc = "finished"
    /\ active = 0
    /\ \A s \in Stages : gen[s] \in {"none", "finished"}

\* C23: once the job is cancelled with none of its tasks dispatched, no step
\* dispatches a task of the job, and when the generators of the job have run
\* to their end the job is stopped.
C23_CancelledBeforeDispatch ==
    [][(jobLife.cancelled /\ NoneDispatched) =>
            /\ NoneDispatched'
            /\ JobEnded => stopped(jobLife)]_vars

\* C24: when a job without stages has been executed (its generator has run
\* to its end, having yielded no stage), the job has emitted its stop signal:
\* it is not left running.
C24_EmptyJobStops ==
    (LastStage = 0 /\ jobPc = "finished") =>
        /\ jobIdx = 1
        /\ stopped(jobLife)
        /\ ~running(jobLife)

\* the stages of the job that have no task
ZeroTaskStages == {s \in 1..LastStage : StageSize(s) = 0}
\* a step of the generator Job.execute
JobAdvances == jobPc' # jobPc \/ jobIdx' # jobIdx

\* C25: a stage without tasks yields no result; while its stream runs no
\* task is dispatched to a worker; when its stream has ended, without an
\* exception, the stage has signalled start and stop, and the job is stopped
\* if the stage is the last one; if it is not the last one, the job yields the
\* next stage when it is advanced.
C25_EmptyStage ==
    [][\A s \in ZeroTaskStages :
        /\ yielded'[s] = <<>>
        /\ (active = s \/ active' = s) =>
                \A u \in Stages : \A t \in TaskSlots : ~Dispatches(u, t)
        /\ gen'[s] = "finished" =>
                /\ exc'[s] = NoError
                /\ stageLife'[s].started
                /\ stopped(stageLife'[s])
                /\ s = LastStage => stopped(jobLife')
        /\ (s < LastStage /\ jobIdx = s + 1 /\ gen[s] = "finished" /\ JobAdvances) =>
                /\ gen'[s + 1] = "created"
                /\ ~stopped(jobLife')]_vars

\* C25, its case: the first stage has no task; its stream has ended and the
\* job has gone on to the second stage, whose task is under way
C25_Witness ==
    /\ stages = <<0, 1>>
    /\ gen[1] = "finished"
    /\ stopped(stageLife[1])
    /\ gen[2] \notin {"none", "created"}
    /\ future[2][1] = "pending"

\* C25, its other case: the last stage has no task; its stream has ended and
\* has stopped the job
C25_WitnessLast ==
    /\ stages = <<NumTasks, 0>>
    /\ gen[2] = "finished"
    /\ stopped(jobLife)

\* the eager loop of stage s waits in workers_available.acquire() with nothing
\* left that could release a permit: tasks remain to be scheduled, no permit
\* is available, every task dispatched so far has completed with a result and
\* its done callbacks have run
EagerBlocked(s) ==
    /\ active = s
    /\ eagerMode[s]
    /\ gen[s] = "loop"
    /\ to_yield[s] # <<>>
    /\ to_schedule[s] # <<>>
    /\ permits[s] = 0
    /\ \A t \in TaskSlots : future[s][t] \in {"none", "done"} /\ cb[s][t] = "none"

\* C26: the eager loop of a stage never comes to wait for a permit that
\* nothing will release: when every dispatched task has completed and tasks
\* remain to be scheduled, the loop can go on, so that it ends by emptying
\* to_yield with every result yielded.
C26_EagerLoopGoesOn == \A s \in Stages : ~EagerBlocked(s)

\* the execution of stage s is in progress: its stream was started and has
\* not signalled stop
StageInProgress(s) == stageLife[s].started /\ ~stopped(stageLife[s])

\* C28: a stage that was cancelled while its execution is in progress gets
\* no further task dispatched to a worker, in eager mode and one by one.
C28_NoDispatchAfterCancel ==
    [][\A s \in Stages : \A t \in TaskSlots :
        (stageLife[s].cancelled /\ StageInProgress(s)) => ~Dispatches(s, t)]_vars

\* the tasks of stage s that wait in to_schedule
Unscheduled(s) == {to_schedule[s][i] : i \in DOMAIN to_schedule[s]}
\* the task the loop of stage s dispatches next, if it dispatches one
NextToStart(s) ==
    IF eagerMode[s] THEN Last(to_schedule[s]) ELSE Len(yielded[s]) + 1
\* the loop of stage s is about to take a task to dispatch
AboutToStart(s) ==
    /\ active = s
    /\ \/ gen[s] = "loop" /\ to_yield[s] # <<>> /\ to_schedule[s] # <<>>
       \/ gen[s] = "obo" /\ Len(yielded[s]) < StageSize(s)

JobLeftRunning == jobLife.started /\ ~stopped(jobLife) /\ JobEnded

\* C30: a job that has signalled start is never left without its stop
\* signal: when Job.execute and the streams it yielded have ended, with or
\* without a task failure raised by a stream, the job has signalled stop.
C30_StartedJobStops == ~JobLeftRunning

\* stage s signals stop in this step
StageStops(s) == ~stopped(stageLife[s]) /\ stopped(stageLife'[s])
\* the job signals stop in this step
JobStops == ~stopped(jobLife) /\ stopped(jobLife')

YieldsStage(s) == gen[s] = "none" /\ gen'[s] = "created"

\* C32: when the caller declines eager execution, the stream of the last
\* stage is created one by one and the stream of every earlier stage eager;
\* a stage that runs one by one dispatches task t only when the results of
\* the tasks 1..t-1, and no others, have been yielded and no later task has a
\* future.
C32_OneByOneInOrder ==
    [][\A s \in 1..LastStage :
        /\ (YieldsStage(s) /\ ~eager) => (eagerMode'[s] <=> s < LastStage)
        /\ \A t \in TaskSlots :
            (Dispatches(s, t) /\ ~eagerMode[s]) =>
                /\ Len(yielded[s]) = t - 1
                /\ \A u \in 1..(t - 1) : future[s][u] = "done"
                /\ \A u \in (t + 1)..StageSize(s) : future[s][u] = "none"]_vars

\* C32, its case: eager execution was declined; the first stage ran eager, and
\* the last stage, one by one, has yielded the result of its first task and
\* has dispatched its second task
C32_Witness ==
    /\ ~eager
    /\ LastStage = 2
    /\ eagerMode[1]
    /\ gen[1] = "finished"
    /\ ~eagerMode[2]
    /\ Len(yielded[2]) = 1
    /\ future[2][2] = "pending"

(***************************************************************************)
(* Block manager (src/bndl/rmi/blocks.py)                                  *)
(***************************************************************************)
\* the threads that call get_blocks on the node
Callers == 1..NumCallers
\* block indices of the block set (block idx of the source is index idx + 1)
BlockIds == 1..NumBlocks

Seeder == "seeder"
\* the nodes of type worker
WorkerPeers == {"p1", "p2"}
\* the node the callers run on
Self == "self"
\* the peers that share an IP address with the node
LocalNodes == {"p1"}

None == <<"None">>
NoEntry == <<"KeyError">>
\* get_blocks was not called yet by the thread
NotCalled == -1
\* the content of block i of the data served
BlockData(i) == <<"block", i>>
\* the blocks handed to serve_blocks
ServedBlocks == [i \in BlockIds |-> BlockData(i)]
\* [None] * block_spec.num_blocks
EmptyBlocks == [i \in BlockIds |-> None]

\* the list _blocks_cache[name] holds
CachedBlocks == lists[cacheRef]

\* serve_blocks on the seeder, called once for the name: the blocks are stored
\* under the name and a BlockSpec(seeder, name, len(blocks)) is returned
ServeBlocks ==
    /\ ~specKnown
    /\ seederBlocks' = ServedBlocks
    /\ specKnown' = TRUE
    /\ UNCHANGED <<serveVars, netVars, schedVars, worker_peers, tried, called, peerCache, removals, removeQueue, cacheRef, eventRef,
                   lists, eventSet, availLock, pc, available, round, idx, local,
                   remote, returned>>

\* remove_blocks(name, from_peers=True) on the seeder: the local entry goes and
\* a _remove_blocks request is sent to every peer, without waiting for replies
RemoveBlocks ==
    /\ removals < MaxRemovals
    /\ seederBlocks # NoEntry
    /\ seederBlocks' = NoEntry
    /\ removeQueue' = removeQueue \cup worker_peers \cup {Self}
    /\ removals' = removals + 1
    /\ UNCHANGED <<serveVars, netVars, schedVars, worker_peers, tried, called, specKnown, peerCache, cacheRef, eventRef, lists,
                   eventSet, availLock, pc, available, round, idx, local, remote,
                   returned>>

\* _remove_blocks, handling the request of a peer, on the node
RemoveBlocksHere ==
    /\ Self \in removeQueue
    /\ removeQueue' = removeQueue \ {Self}
    /\ cacheRef' = 0
    /\ eventRef' = 0
    /\ UNCHANGED <<serveVars, netVars, schedVars, worker_peers, tried, called, seederBlocks, specKnown, peerCache, removals, lists,
                   eventSet, availLock, pc, available, round, idx, local, remote,
                   returned>>

\* _remove_blocks, handling the request of a peer, on worker peer p
RemoveBlocksAtPeer(p) ==
    /\ p \in removeQueue
    /\ removeQueue' = removeQueue \ {p}
    /\ peerCache' = [peerCache EXCEPT ![p] = NoEntry]
    /\ UNCHANGED <<serveVars, netVars, schedVars, worker_peers, tried, called, seederBlocks, specKnown, removals, cacheRef, eventRef,
                   lists, eventSet, availLock, pc, available, round, idx, local,
                   remote, returned>>

\* a download on worker peer p stores block i in the peer's own list
PeerDownload(p, i) ==
    /\ specKnown
    /\ seederBlocks # NoEntry
    /\ LET blocks == IF peerCache[p] = NoEntry THEN EmptyBlocks ELSE peerCache[p] IN
       /\ blocks[i] = None
       /\ peerCache' = [peerCache EXCEPT ![p] = [blocks EXCEPT ![i] = seederBlocks[i]]]
    /\ UNCHANGED <<serveVars, netVars, schedVars, worker_peers, tried, called, seederBlocks, specKnown, removals, removeQueue, cacheRef,
                   eventRef, lists, eventSet, availLock, pc, available, round, idx,
                   local, remote, returned>>

\* get_blocks: with self._available_lock
GetBlocksLock(c) ==
    /\ specKnown
    /\ pc[c] = "idle"
    /\ availLock = 0
    /\ availLock' = c
    /\ pc' = [pc EXCEPT ![c] = "locked"]
    /\ called' = [called EXCEPT ![c] = removals]
    /\ UNCHANGED <<serveVars, netVars, schedVars, worker_peers, tried, seederBlocks, specKnown, peerCache, removals,
                   removeQueue, cacheRef, eventRef, lists, eventSet, available,
                   round, idx, local, remote, returned>>

InProgress_whenSet(event) == event # 0 /\ eventSet[event]
\* get_blocks: in_progress, from the Event found under the name
InProgress(event) == event # 0

\* get_blocks, the body of the with statement: look the Event up; wait for it
\* if there is one, and register a new one and become the downloader otherwise
GetBlocksRegister(c) ==
    /\ pc[c] = "locked"
    /\ availLock = c
    /\ IF InProgress(eventRef)
       THEN /\ available' = [available EXCEPT ![c] = eventRef]
            /\ pc' = [pc EXCEPT ![c] = "wait"]
            /\ UNCHANGED <<eventRef, eventSet>>
       ELSE /\ available' = [available EXCEPT ![c] = c]
            /\ eventSet' = [eventSet EXCEPT ![c] = FALSE]
            /\ eventRef' = c
            /\ pc' = [pc EXCEPT ![c] = "download"]
    /\ availLock' = 0
    /\ UNCHANGED <<serveVars, netVars, schedVars, worker_peers, tried, called, seederBlocks, specKnown, peerCache, removals,
                   removeQueue, cacheRef, lists, round, idx, local, remote,
                   returned>>

\* get_blocks: available.wait()
GetBlocksWait(c) ==
    /\ pc[c] = "wait"
    /\ eventSet[available[c]]
    /\ pc' = [pc EXCEPT ![c] = "return"]
    /\ UNCHANGED <<serveVars, netVars, schedVars, worker_peers, tried, called, seederBlocks, specKnown, peerCache, removals,
                   removeQueue, cacheRef, eventRef, lists, eventSet, availLock,
                   available, round, idx, local, remote, returned>>

\* _download: a list of num_blocks empty slots is stored under the name
DownloadStart(c) ==
    /\ pc[c] = "download"
    /\ lists' = [lists EXCEPT ![c] = EmptyBlocks]
    /\ cacheRef' = c
    /\ round' = [round EXCEPT ![c] = 0]
    /\ pc' = [pc EXCEPT ![c] = "next"]
    /\ UNCHANGED <<serveVars, netVars, schedVars, worker_peers, tried, called, seederBlocks, specKnown, peerCache, removals,
                   removeQueue, eventRef, eventSet, availLock, available, idx,
                   local, remote, returned>>

\* [idx for idx, block in enumerate(blocks) if block is not None], from
\* position k of the list on
RECURSIVE FilledFrom(_, _)
FilledFrom(blocks, k) ==
    IF k > Len(blocks) THEN <<>>
    ELSE (IF blocks[k] # None THEN <<k - 1>> ELSE <<>>) \o FilledFrom(blocks, k + 1)

\* the outcome of a request: the value returned, or an exception raised
Returns(value) == [raised |-> FALSE, value |-> value]
Raises == [raised |-> TRUE, value |-> <<>>]

GetBlocksAvailable_nocatch(entry) ==
    IF entry = NoEntry THEN Raises ELSE Returns(FilledFrom(entry, 1))
\* _get_blocks_available, given the entry of the name in _blocks_cache: the
\* KeyError of a missing entry is caught and () is returned
GetBlocksAvailable(entry) ==
    IF entry = NoEntry THEN Returns(<<>>) ELSE Returns(FilledFrom(entry, 1))

\* _next_download: the block ids in the answer of worker peer p to
\* _get_blocks_available; a request that fails is logged and skipped
BlocksAvailable(p) ==
    LET answer == GetBlocksAvailable(peerCache[p]) IN
    IF answer.raised THEN {}
    ELSE {answer.value[k] + 1 : k \in DOMAIN answer.value}

\* the sequences in which answers of worker peers can arrive before the timeout
RECURSIVE Orders(_)
Orders(ps) ==
    {<<>>} \cup UNION {{<<p>> \o o : o \in Orders(ps \ {p})} : p \in ps}

\* availability[i]: the peers that advertise the missing block i, in the order
\* their answers arrived
Advertisers(order, blocks, i) ==
    IF blocks[i] # None THEN <<>>
    ELSE SelectSeq(order, LAMBDA p : i \in BlocksAvailable(p))

\* the worker peers in the order of PeerNode.__lt__
PeerOrder == <<"p1", "p2">>
PeerRank(p) == CHOOSE k \in DOMAIN PeerOrder : PeerOrder[k] = p

\* a < b for two lists of peers, as Python compares lists
RECURSIVE ListLess(_, _)
ListLess(a, b) ==
    IF b = <<>> THEN FALSE
    ELSE IF a = <<>> THEN TRUE
    ELSE IF PeerRank(Head(a)) < PeerRank(Head(b)) THEN TRUE
    ELSE IF PeerRank(Head(b)) < PeerRank(Head(a)) THEN FALSE
    ELSE ListLess(Tail(a), Tail(b))

\* the place of the first answer that advertises block i
FirstAnswer(order, i) ==
    CHOOSE k \in DOMAIN order :
        /\ i \in BlocksAvailable(order[k])
        /\ \A j \in 1..(k - 1) : i \notin BlocksAvailable(order[j])

\* key i was inserted in availability before key j
InsertedBefore(order, i, j) ==
    \/ FirstAnswer(order, i) < FirstAnswer(order, j)
    \/ FirstAnswer(order, i) = FirstAnswer(order, j) /\ i < j

\* sorted(availability.items(), key=itemgetter(1), reverse=True)[0]: the first
\* inserted of the keys whose list of peers is greatest
MostAvailable(order, blocks, keys) ==
    CHOOSE i \in keys : \A j \in keys \ {i} :
        \/ ListLess(Advertisers(order, blocks, j), Advertisers(order, blocks, i))
        \/ /\ Advertisers(order, blocks, j) = Advertisers(order, blocks, i)
           /\ InsertedBefore(order, i, j)

Range(seq) == {seq[k] : k \in DOMAIN seq}

\* _next_download: the <<block index, candidates>> it can return when the
\* answers of the worker peers arrive in the given order; none when
\* random.choice finds nothing remaining
NextDownload(order, blocks) ==
    LET keys == {i \in BlockIds : Advertisers(order, blocks, i) # <<>>} IN
    IF keys # {}
    THEN LET i == MostAvailable(order, blocks, keys) IN
         {<<i, Range(Advertisers(order, blocks, i))>>}
    ELSE {<<i, {Seeder}>> : i \in {j \in BlockIds : blocks[j] = None}}

\* _download, the head of a round: _next_download and the split of the
\* candidates in local and remote ones. _next_download raises KeyError when the
\* entry of the name is gone.
DownloadNext(c) ==
    /\ pc[c] = "next"
    /\ round[c] < NumBlocks
    /\ tried' = [tried EXCEPT ![c] = <<>>]
    /\ IF cacheRef = 0
       THEN /\ pc' = [pc EXCEPT ![c] = "raised"]
            /\ UNCHANGED <<idx, local, remote>>
       ELSE \E order \in Orders(worker_peers) :
            LET choices == NextDownload(order, CachedBlocks) IN
            IF choices = {}
            THEN /\ pc' = [pc EXCEPT ![c] = "raised"]
                 /\ UNCHANGED <<idx, local, remote>>
            ELSE \E choice \in choices :
                 /\ idx' = [idx EXCEPT ![c] = choice[1]]
                 /\ local' = [local EXCEPT ![c] = choice[2] \cap LocalNodes]
                 /\ remote' = [remote EXCEPT ![c] = choice[2] \ LocalNodes]
                 /\ pc' = [pc EXCEPT ![c] = "fetch"]
    /\ UNCHANGED <<serveVars, netVars, schedVars, worker_peers, called, seederBlocks, specKnown, peerCache, removals,
                   removeQueue, cacheRef, eventRef, lists, eventSet, availLock,
                   available, round, returned>>

\* _get_block on the source, for block i: the block, or the failure of the
\* request (no entry under the name; an empty slot has no len() to send)
GetBlock(source, i) ==
    LET entry == IF source = Seeder THEN seederBlocks ELSE peerCache[source] IN
    IF entry = NoEntry THEN NoEntry
    ELSE IF entry[i] = None THEN NoEntry
    ELSE entry[i]

\* download(source): blocks[idx] = the block the source sent
StoreBlock(c, block) ==
    /\ lists' = [lists EXCEPT ![c][idx[c]] = block]
    /\ round' = [round EXCEPT ![c] = @ + 1]
    /\ pc' = [pc EXCEPT ![c] = "next"]

\* a _get_block request of _download: the source asked, whether it is the
\* fallback to the seeder, and whether the source sent the block
Request(source, fallback, i) ==
    [source |-> source, fallback |-> fallback, ok |-> GetBlock(source, i) # NoEntry]

Candidates_remote(c) == IF remote[c] # {} THEN remote[c] ELSE local[c]

\* the candidates random.choice picks from: local ones before remote ones
Candidates(c) == IF local[c] # {} THEN local[c] ELSE remote[c]

\* _download, the loop over the candidates of a round: one candidate is taken
\* out and tried; a failure leaves the block for the next candidate
DownloadTry(c) ==
    /\ pc[c] = "fetch"
    /\ Candidates(c) # {}
    /\ \E source \in Candidates(c) :
        /\ local' = [local EXCEPT ![c] = @ \ {source}]
        /\ tried' = [tried EXCEPT ![c] = Append(@, Request(source, FALSE, idx[c]))]
        /\ remote' = [remote EXCEPT ![c] = IF local[c] # {} THEN @ ELSE @ \ {source}]
        /\ IF GetBlock(source, idx[c]) # NoEntry
           THEN StoreBlock(c, GetBlock(source, idx[c]))
           ELSE UNCHANGED <<lists, round, pc>>
    /\ UNCHANGED <<serveVars, netVars, schedVars, worker_peers, called, seederBlocks, specKnown, peerCache, removals,
                   removeQueue, cacheRef, eventRef, eventSet, availLock, available,
                   idx, returned>>

\* _download, the else clause of the loop: no candidate is left, the block is
\* downloaded from the seeder, and a failure of that ends _download
DownloadFromSeeder(c) ==
    /\ pc[c] = "fetch"
    /\ Candidates(c) = {}
    /\ tried' = [tried EXCEPT ![c] = Append(@, Request(Seeder, TRUE, idx[c]))]
    /\ IF GetBlock(Seeder, idx[c]) # NoEntry
       THEN StoreBlock(c, GetBlock(Seeder, idx[c]))
       ELSE /\ pc' = [pc EXCEPT ![c] = "raised"]
            /\ UNCHANGED <<lists, round>>
    /\ UNCHANGED <<serveVars, netVars, schedVars, worker_peers, called, seederBlocks, specKnown, peerCache, removals,
                   removeQueue, cacheRef, eventRef, eventSet, availLock, available,
                   idx, local, remote, returned>>

\* get_blocks: _download returned, available.set()
GetBlocksSet(c) ==
    /\ pc[c] = "next"
    /\ round[c] = NumBlocks
    /\ eventSet' = [eventSet EXCEPT ![available[c]] = TRUE]
    /\ pc' = [pc EXCEPT ![c] = "return"]
    /\ UNCHANGED <<serveVars, netVars, schedVars, worker_peers, tried, called, seederBlocks, specKnown, peerCache, removals,
                   removeQueue, cacheRef, eventRef, lists, availLock, available,
                   round, idx, local, remote, returned>>

\* get_blocks: return self._blocks_cache[name]
GetBlocksReturn(c) ==
    /\ pc[c] = "return"
    /\ IF cacheRef = 0
       THEN /\ pc' = [pc EXCEPT ![c] = "raised"]
            /\ UNCHANGED returned
       ELSE /\ pc' = [pc EXCEPT ![c] = "returned"]
            /\ returned' = [returned EXCEPT ![c] = CachedBlocks]
    /\ UNCHANGED <<serveVars, netVars, schedVars, worker_peers, tried, called, seederBlocks, specKnown, peerCache, removals,
                   removeQueue, cacheRef, eventRef, lists, eventSet, availLock,
                   available, round, idx, local, remote>>

\* the block managers after construction
BlocksStart ==
    /\ seederBlocks = NoEntry
    /\ specKnown = FALSE
    /\ peerCache = [p \in WorkerPeers |-> NoEntry]
    /\ removals = 0
    /\ removeQueue = {}
    /\ cacheRef = 0
    /\ eventRef = 0
    /\ lists = [c \in Callers |-> EmptyBlocks]
    /\ eventSet = [c \in Callers |-> FALSE]
    /\ availLock = 0
    /\ pc = [c \in Callers |-> "idle"]
    /\ available = [c \in Callers |-> 0]
    /\ round = [c \in Callers |-> 0]
    /\ idx = [c \in Callers |-> 1]
    /\ local = [c \in Callers |-> {}]
    /\ remote = [c \in Callers |-> {}]
    /\ tried = [c \in Callers |-> <<>>]
    /\ returned = [c \in Callers |-> <<>>]
    /\ called = [c \in Callers |-> NotCalled]

\* the block managers after construction; the node has one worker peer
BlocksInit ==
    /\ worker_peers = {"p1"}
    /\ BlocksStart

BlocksNext ==
    \/ ServeBlocks
    \/ RemoveBlocks
    \/ RemoveBlocksHere
    \/ \E p \in worker_peers : RemoveBlocksAtPeer(p)
    \/ \E p \in worker_peers, i \in BlockIds : PeerDownload(p, i)
    \/ \E c \in Callers : GetBlocksLock(c)
    \/ \E c \in Callers : GetBlocksRegister(c)
    \/ \E c \in Callers : GetBlocksWait(c)
    \/ \E c \in Callers : DownloadStart(c)
    \/ \E c \in Callers : DownloadNext(c)
    \/ \E c \in Callers : DownloadTry(c)
    \/ \E c \in Callers : DownloadFromSeeder(c)
    \/ \E c \in Callers : GetBlocksSet(c)
    \/ \E c \in Callers : GetBlocksReturn(c)

\* one thread calls get_blocks on the node
OneCaller == {1}

\* the block managers after construction; the node has two worker peers, one
\* that shares an IP address with it and one that does not
DownloadInit ==
    /\ worker_peers = WorkerPeers
    /\ BlocksStart

\* a single download on the node, while the worker peers fill and lose their
\* own copies
DownloadsNext ==
    \/ ServeBlocks
    \/ RemoveBlocks
    \/ RemoveBlocksHere
    \/ \E p \in worker_peers : RemoveBlocksAtPeer(p)
    \/ \E p \in worker_peers, i \in BlockIds : PeerDownload(p, i)
    \/ \E c \in OneCaller : GetBlocksLock(c)
    \/ \E c \in OneCaller : GetBlocksRegister(c)
    \/ \E c \in OneCaller : DownloadStart(c)
    \/ \E c \in OneCaller : DownloadNext(c)
    \/ \E c \in OneCaller : DownloadTry(c)
    \/ \E c \in OneCaller : DownloadFromSeeder(c)
    \/ \E c \in OneCaller : GetBlocksSet(c)
    \/ \E c \in OneCaller : GetBlocksReturn(c)

(***************************************************************************)
(* Block manager: properties                                               *)
(***************************************************************************)
\* the callers whose get_blocks took the branch that runs _download
Downloaders == {c \in Callers : available[c] = c}
\* the callers whose get_blocks took the branch that waits for the Event
Waiters == {c \in Callers : available[c] # 0 /\ available[c] # c}

\* C6: until remove_blocks is called for the name, at most one caller of
\* get_blocks is the downloader: of the callers that passed the lookup, one
\* runs _download and all others wait for the Event.
C6_OneDownloader ==
    removals = 0 =>
        /\ Cardinality(Downloaders) <= 1
        /\ (Downloaders \cup Waiters # {}) => Cardinality(Downloaders) = 1
        /\ \A c \in Waiters : available[c] \in Downloaders

\* C6, its case: two callers went through get_blocks concurrently; one is in
\* the middle of its download and the other one waits
C6_Witness ==
    /\ removals = 0
    /\ \E c, d \in Callers :
        /\ pc[c] = "fetch"
        /\ pc[d] = "wait"
        /\ available[d] = c

\* C7: whenever get_blocks returns, the sequence returned has num_blocks
\* entries and none of them is empty.
C7_ReturnsAllBlocks ==
    \A c \in Callers : pc[c] = "returned" =>
        /\ Len(returned[c]) = NumBlocks
        /\ \A i \in BlockIds : returned[c][i] # None

\* C16: the sequence get_blocks returns on the node equals, block for
\* block, the blocks that were served on the seeder.
C16_ReturnsServedBlocks ==
    \A c \in Callers : pc[c] = "returned" => returned[c] = ServedBlocks

\* the entry of the name in the _blocks_cache of the node
HereCache == IF cacheRef = 0 THEN NoEntry ELSE CachedBlocks

\* C17: once remove_blocks(name, from_peers=True) was called and the node has
\* handled the _remove_blocks request, _get_blocks_available(name) on the node
\* returns an empty list, also when a get_blocks of before the removal is
\* still under way.
C17_RemovedAtPeers ==
    (/\ removals > 0
     /\ Self \notin removeQueue
     /\ \A c \in Callers : called[c] <= 0)
        => GetBlocksAvailable(HereCache) = Returns(<<>>)

\* the _blocks_cache entries of the nodes that answer _get_blocks_available
AnsweringCaches == {HereCache} \cup {peerCache[p] : p \in worker_peers}

\* C18: _get_blocks_available never raises: without an entry for the name it
\* returns an empty sequence, and with one it returns exactly the indices of
\* the slots that are filled.
C18_AvailableNeverRaises ==
    \A entry \in AnsweringCaches :
        LET answer == GetBlocksAvailable(entry).value IN
        /\ ~GetBlocksAvailable(entry).raised
        /\ entry = NoEntry => answer = <<>>
        /\ entry # NoEntry =>
            /\ \A i \in BlockIds :
                (entry[i] # None) <=> (\E k \in DOMAIN answer : answer[k] = i - 1)
            /\ \A k \in DOMAIN answer : \A l \in DOMAIN answer :
                k < l => answer[k] < answer[l]

\* C18, its case: the node is asked while its download has filled a block and
\* not the next one, and a worker peer is asked that has no entry
C18_Witness ==
    /\ cacheRef # 0
    /\ CachedBlocks[1] # None
    /\ CachedBlocks[2] = None
    /\ \E p \in worker_peers : peerCache[p] = NoEntry
    /\ \E c \in Callers : pc[c] = "fetch"

\* C19: every step that changes the entry of the name in _blocks_cache or in
\* _available_events of the node is taken by the thread that holds
\* _available_lock.
C19_MutationsUnderLock ==
    [][(cacheRef' # cacheRef \/ eventRef' # eventRef) =>
          /\ availLock # 0
          /\ cacheRef' # cacheRef => availLock = cacheRef'
          /\ eventRef' # eventRef => availLock = eventRef']_vars

\* the get_blocks call of caller c is over: it returned or it raised
GetBlocksOver(c) == pc[c] \in {"returned", "raised"}

\* C27: when the get_blocks call of the downloader is over, also by an
\* exception of _download, the Event of every caller that waits for that
\* download is set, so that the waiting caller goes on to return or raise.
C27_WaitersReleased ==
    \A c \in Waiters :
        (pc[c] = "wait" /\ GetBlocksOver(available[c])) => eventSet[available[c]]

\* the number of peers that advertise the missing block i
AdvertiserCount(order, blocks, i) == Len(Advertisers(order, blocks, i))

\* of the advertised missing blocks, the one most peers advertise; of those
\* with as many advertisers, the first inserted
MostAdvertised(order, blocks, keys) ==
    CHOOSE i \in keys : \A j \in keys \ {i} :
        \/ AdvertiserCount(order, blocks, j) < AdvertiserCount(order, blocks, i)
        \/ /\ AdvertiserCount(order, blocks, j) = AdvertiserCount(order, blocks, i)
           /\ InsertedBefore(order, i, j)

\* _next_download returns to caller c in this step
NextDownloadReturns(c) == pc[c] = "next" /\ pc'[c] = "fetch"

\* C33: what _next_download returns is explained by the answers of the worker
\* peers that arrived in time, in some order: if they advertise a missing
\* block, the index is the missing block most of them advertise (the first
\* inserted among equals) and the candidates are exactly its advertisers;
\* otherwise the index is a missing block and the seeder the only candidate.
C33_MostAdvertisedFirst ==
    [][\A c \in Callers :
        NextDownloadReturns(c) =>
            \E order \in Orders(worker_peers) :
                LET keys == {i \in BlockIds : Advertisers(order, CachedBlocks, i) # <<>>}
                    candidates == local'[c] \cup remote'[c] IN
                IF keys # {}
                THEN /\ idx'[c] = MostAdvertised(order, CachedBlocks, keys)
                     /\ candidates = Range(Advertisers(order, CachedBlocks, idx'[c]))
                ELSE /\ CachedBlocks[idx'[c]] = None
                     /\ candidates = {Seeder}]_vars

\* the requests of the round that went to candidates, in order
CandidateRequests(c) == SelectSeq(tried[c], LAMBDA r : ~r.fallback)

\* C34: in every round of _download the candidates are asked before the
\* seeder fallback, local candidates before remote ones and none of them
\* twice; every request but the last one of the round failed; the fallback
\* is the last request and is made when no candidate is left; and _download
\* fails on a request only if that request is the fallback.
C34_SourcesInOrder ==
    \A c \in Callers :
        LET asked == CandidateRequests(c) IN
        /\ \A k \in DOMAIN asked : \A l \in DOMAIN asked :
            k < l => /\ asked[k].source # asked[l].source
                     /\ asked[l].source \in LocalNodes => asked[k].source \in LocalNodes
        /\ \A k \in DOMAIN tried[c] :
            /\ k < Len(tried[c]) => ~tried[c][k].ok /\ ~tried[c][k].fallback
            /\ tried[c][k].fallback =>
                /\ tried[c][k].source = Seeder
                /\ local[c] \cup remote[c] = {}
        /\ (pc[c] = "raised" /\ tried[c] # <<>> /\ ~Last(tried[c]).ok) =>
                Last(tried[c]).fallback
        /\ {asked[k].source : k \in DOMAIN asked} \cap (local[c] \cup remote[c]) = {}

\* C34, its case: both worker peers advertised the block; the local one had
\* lost it when it was asked, and the remote one, asked next, sent it
C34_Witness ==
    \E c \in Callers :
        /\ Len(tried[c]) = 2
        /\ tried[c][1] = [source |-> "p1", fallback |-> FALSE, ok |-> FALSE]
        /\ tried[c][2] = [source |-> "p2", fallback |-> FALSE, ok |-> TRUE]
        /\ pc[c] = "next"
        /\ lists[c][idx[c]] # None

\* C34, its other case: both worker peers advertised the block and had lost
\* it when they were asked, the local one first; the seeder was asked last
C34_WitnessFallback ==
    \E c \in Callers :
        /\ Len(tried[c]) = 3
        /\ tried[c][1].source = "p1"
        /\ tried[c][2].source = "p2"
        /\ tried[c][3].fallback

(***************************************************************************)
(* Peer membership (src/bndl/net/node.py)                                  *)
(***************************************************************************)
\* the names of the nodes, in the order their names compare
NodeNames == <<"alpha", "beta">>
Nodes == {NodeNames[k] : k \in DOMAIN NodeNames}
NameRank(n) == CHOOSE k \in DOMAIN NodeNames : NodeNames[k] = n

\* the connections that are made: each node connects to the other one as its
\* seed, and alpha also reaches its own server through one of its seeds
Conns == {"ab", "ba", "aa"}
Initiator(c) == IF c = "ba" THEN "beta" ELSE "alpha"
Acceptor(c) == IF c = "ab" THEN "beta" ELSE "alpha"

\* a PeerNode object: one end of a connection
Sides == {"out", "in"}
Ends == Conns \X Sides
\* the node that holds the PeerNode (peer.local)
Owner(p) == IF p[2] = "out" THEN Initiator(p[1]) ELSE Acceptor(p[1])
\* peer.name: the name the remote identified with in the hello exchange
PeerName(p) == IF p[2] = "out" THEN Acceptor(p[1]) ELSE Initiator(p[1])
\* the PeerNode at the other end of the connection
OtherEnd(p) == <<p[1], IF p[2] = "out" THEN "in" ELSE "out">>

NoPeer == <<"None">>
NoHolder == <<"unlocked">>

\* the tiebreak key of a PeerNode: derived from (our-name, remote-name,
\* is-initiator) as the name of the node that initiated the connection, which
\* is the same at both ends
TiebreakKey(p) == NameRank(Initiator(p[1]))
\* PeerNode.__lt__
PeerLess(p, q) == TiebreakKey(p) < TiebreakKey(q)

\* the node that is stopped
Stopping == "alpha"
\* the server of node n accepts connections
Accepts(n) == n # Stopping \/ server_open

\* a connection is made and the hello exchange completes at both ends: each
\* end is about to hand its PeerNode to _peer_connected
HelloExchanged(c) ==
    /\ \A s \in Sides : conPc[<<c, s>>] = "none"
    /\ Accepts(Acceptor(c))
    /\ conPc' = [p \in Ends |-> IF p[1] = c THEN "ready" ELSE conPc[p]]
    /\ is_connected' = [p \in Ends |-> IF p[1] = c THEN TRUE ELSE is_connected[p]]
    /\ UNCHANGED <<serveVars, schedVars, blockVars, startVars, stopVars, discVars, peers, peer_table_lock>>

\* the connection of a PeerNode was closed by the other end: the PeerNode
\* becomes not connected, its entry in the peer table stays
ConnectionBroken(p) ==
    /\ is_connected[p]
    /\ conPc[OtherEnd(p)] # "none"
    /\ ~is_connected[OtherEnd(p)]
    /\ is_connected' = [is_connected EXCEPT ![p] = FALSE]
    /\ UNCHANGED <<serveVars, schedVars, blockVars, startVars, stopVars, discVars, peers, peer_table_lock, conPc>>

\* _peer_connected: with (yield from self._peer_table_lock)
PeerConnectedLock(p) ==
    /\ conPc[p] = "ready"
    /\ peer_table_lock[Owner(p)] = NoHolder
    /\ peer_table_lock' = [peer_table_lock EXCEPT ![Owner(p)] = p]
    /\ conPc' = [conPc EXCEPT ![p] = "locked"]
    /\ UNCHANGED <<serveVars, schedVars, blockVars, startVars, stopVars, discVars, peers, is_connected>>

OldConnectionWins_unordered(known_peer, peer) == is_connected[known_peer]
\* _peer_connected: known_peer.is_connected and known_peer < peer
OldConnectionWins(known_peer, peer) ==
    is_connected[known_peer] /\ PeerLess(known_peer, peer)

\* _peer_connected, from the lookup of the known peer to the first yield: the
\* new peer is installed when no peer is known under its name, the assertion
\* fails when the new peer is not connected, and otherwise a connection is
\* chosen to be closed
PeerConnectedLookup(p) ==
    LET self == Owner(p)
        known_peer == peers[self][PeerName(p)] IN
    /\ conPc[p] = "locked"
    /\ IF known_peer = NoPeer
       THEN /\ peers' = [peers EXCEPT ![self][PeerName(p)] = p]
            /\ peer_table_lock' = [peer_table_lock EXCEPT ![self] = NoHolder]
            /\ conPc' = [conPc EXCEPT ![p] = "installed"]
       ELSE IF ~is_connected[p]
       THEN /\ peer_table_lock' = [peer_table_lock EXCEPT ![self] = NoHolder]
            /\ conPc' = [conPc EXCEPT ![p] = "asserted"]
            /\ UNCHANGED peers
       ELSE /\ conPc' = [conPc EXCEPT ![p] =
                IF self = PeerName(p) THEN "self_connect"
                ELSE IF OldConnectionWins(known_peer, p) THEN "old_wins"
                ELSE "new_wins"]
            /\ UNCHANGED <<peers, peer_table_lock>>
    /\ UNCHANGED <<serveVars, schedVars, blockVars, startVars, stopVars, discVars, is_connected>>

\* _peer_connected: yield from peer.disconnect(...); return, for a self
\* connect and for an old connection that wins
PeerConnectedReject(p) ==
    /\ conPc[p] \in {"self_connect", "old_wins"}
    /\ is_connected' = [is_connected EXCEPT ![p] = FALSE]
    /\ peer_table_lock' = [peer_table_lock EXCEPT ![Owner(p)] = NoHolder]
    /\ conPc' = [conPc EXCEPT ![p] = "rejected"]
    /\ UNCHANGED <<serveVars, schedVars, blockVars, startVars, stopVars, discVars, peers>>

NewConnectionWins_keeps(known_peer) == UNCHANGED is_connected
\* _peer_connected: yield from known_peer.disconnect(...)
NewConnectionWins(known_peer) ==
    is_connected' = [is_connected EXCEPT ![known_peer] = FALSE]

\* _peer_connected, the new connection wins: the known peer is disconnected
PeerConnectedDisconnectKnown(p) ==
    /\ conPc[p] = "new_wins"
    /\ NewConnectionWins(peers[Owner(p)][PeerName(p)])
    /\ conPc' = [conPc EXCEPT ![p] = "replace"]
    /\ UNCHANGED <<serveVars, schedVars, blockVars, startVars, stopVars, discVars, peers, peer_table_lock>>

\* _peer_connected, the new connection wins: del self.peers[peer.name];
\* self.peers[peer.name] = peer, and the mutex is released
PeerConnectedReplace(p) ==
    /\ conPc[p] = "replace"
    /\ peers' = [peers EXCEPT ![Owner(p)][PeerName(p)] = p]
    /\ peer_table_lock' = [peer_table_lock EXCEPT ![Owner(p)] = NoHolder]
    /\ conPc' = [conPc EXCEPT ![p] = "installed"]
    /\ UNCHANGED <<serveVars, schedVars, blockVars, startVars, stopVars, discVars, is_connected>>

\* the nodes after construction: empty peer tables, no connection made
NetStart ==
    /\ peers = [n \in Nodes |-> [r \in Nodes |-> NoPeer]]
    /\ peer_table_lock = [n \in Nodes |-> NoHolder]
    /\ is_connected = [p \in Ends |-> FALSE]
    /\ conPc = [p \in Ends |-> "none"]

(***************************************************************************)
(* Node._discovered (src/bndl/net/node.py)                                 *)
(***************************************************************************)
\* the node that receives the discovery message
Receiver == "alpha"
\* the holder of the mutex while _discovered has it
Discoverer == <<"_discovered">>

\* _discovered: with (yield from self._peer_table_lock), for the next entry
DiscoveredLock ==
    /\ discPc = "loop"
    /\ discIdx <= Len(discovery)
    /\ peer_table_lock[Receiver] = NoHolder
    /\ peer_table_lock' = [peer_table_lock EXCEPT ![Receiver] = Discoverer]
    /\ discPc' = "locked"
    /\ UNCHANGED <<serveVars, schedVars, blockVars, startVars, stopVars, peers, is_connected, conPc,
                   discovery, discIdx, handled>>

\* the entry of the batch has been gone through: the with block is left, which
\* releases the mutex, and the loop goes to the next entry
EntryHandled(what) ==
    /\ handled' = Append(handled, [name |-> discovery[discIdx], what |-> what])
    /\ peer_table_lock' = [peer_table_lock EXCEPT ![Receiver] = NoHolder]
    /\ discIdx' = discIdx + 1
    /\ discPc' = "loop"

\* _discovered: if name not in self.peers: a known name is passed over; for an
\* unknown one a PeerNode is created and connect() is called
DiscoveredLookup ==
    /\ discPc = "locked"
    /\ IF peers[Receiver][discovery[discIdx]] # NoPeer
       THEN EntryHandled("known")
       ELSE /\ discPc' = "connect"
            /\ UNCHANGED <<peer_table_lock, discIdx, handled>>
    /\ UNCHANGED <<serveVars, schedVars, blockVars, startVars, stopVars, peers, is_connected, conPc, discovery>>

ConnectFailed_raise ==
    /\ discPc' = "raised"
    /\ peer_table_lock' = [peer_table_lock EXCEPT ![Receiver] = NoHolder]
    /\ UNCHANGED <<discIdx, handled>>

\* _discovered: the except clause around peer.connect(), which logs the
\* exception
ConnectFailed == EntryHandled("logged")

\* _discovered: yield from peer.connect() returns or raises
DiscoveredConnect(ok) ==
    /\ discPc = "connect"
    /\ IF ok THEN EntryHandled("connected") ELSE ConnectFailed
    /\ UNCHANGED <<serveVars, schedVars, blockVars, startVars, stopVars, peers, is_connected, conPc, discovery>>

\* _discovered: the loop has gone through the batch
DiscoveredReturn ==
    /\ discPc = "loop"
    /\ discIdx > Len(discovery)
    /\ discPc' = "returned"
    /\ UNCHANGED <<serveVars, schedVars, blockVars, startVars, stopVars, peers, peer_table_lock, is_connected,
                   conPc, discovery, discIdx, handled>>

\* the batches of a discovery message: names of nodes, in any order, a name
\* possibly more than once
RECURSIVE BatchesOf(_)
BatchesOf(n) ==
    IF n = 0 THEN {<<>>}
    ELSE BatchesOf(n - 1) \cup
         {Append(b, name) : b \in {x \in BatchesOf(n - 1) : Len(x) = n - 1}, name \in Nodes}

\* a discovery message has arrived at the node
DiscInit ==
    /\ discovery \in BatchesOf(MaxBatch)
    /\ discPc = "loop"
    /\ discIdx = 1
    /\ handled = <<>>

\* no discovery message has arrived
DiscIdle ==
    /\ discovery = <<>>
    /\ discPc = "returned"
    /\ discIdx = 1
    /\ handled = <<>>

(***************************************************************************)
(* Node.stop (src/bndl/net/node.py)                                        *)
(***************************************************************************)
\* self._iotasks of node n: the task of _notifiy_peers(peer) is appended when
\* _peer_connected has installed the peer, and removed when the task is done
IoTasks(n) == {p \in Ends : Owner(p) = n /\ conPc[p] = "installed"} \ tasksDone

\* self.peers.values() of node n
PeerValues(n) == {peers[n][r] : r \in {x \in Nodes : peers[n][x] # NoPeer}}

\* stop, from self.peers.clear() to its end, which no suspension interrupts:
\* the table is emptied, the server is closed (wait_closed does not suspend
\* once close() was called) and every task in _iotasks is cancelled
StopEnds ==
    /\ peers' = [peers EXCEPT ![Stopping] = [r \in Nodes |-> NoPeer]]
    /\ server_open' = FALSE
    /\ tasksCancelled' = tasksCancelled \cup IoTasks(Stopping)
    /\ stopPc' = "stopped"

\* stop is called: list(self.peers.values()) is the snapshot the first loop
\* runs over; with no peer in it stop runs to its end, and otherwise it is
\* suspended in the disconnect() of the first peer
StopSnapshot ==
    /\ stopPc = "idle"
    /\ to_disconnect' = PeerValues(Stopping)
    /\ IF PeerValues(Stopping) = {}
       THEN StopEnds
       ELSE /\ stopPc' = "disconnect"
            /\ UNCHANGED <<peers, server_open, tasksCancelled>>
    /\ UNCHANGED <<serveVars, schedVars, blockVars, startVars, discVars, peer_table_lock,
                   is_connected, conPc, tasksDone>>

\* stop: yield from peer.disconnect() returns for a peer of the snapshot; after
\* the last one stop runs to its end, and otherwise it is suspended in the
\* disconnect() of the next peer
StopDisconnect(p) ==
    /\ stopPc = "disconnect"
    /\ p \in to_disconnect
    /\ to_disconnect' = to_disconnect \ {p}
    /\ is_connected' = [is_connected EXCEPT ![p] = FALSE]
    /\ IF to_disconnect = {p}
       THEN StopEnds
       ELSE UNCHANGED <<peers, server_open, tasksCancelled, stopPc>>
    /\ UNCHANGED <<serveVars, schedVars, blockVars, startVars, discVars, peer_table_lock,
                   conPc, tasksDone>>

\* the task of _notifiy_peers(p) ends: its done callback removes it from _iotasks
NotifyDone(p) ==
    /\ p \in IoTasks(Owner(p))
    /\ p \notin tasksCancelled
    /\ tasksDone' = tasksDone \cup {p}
    /\ UNCHANGED <<serveVars, schedVars, blockVars, startVars, discVars, peers, peer_table_lock,
                   is_connected, conPc, stopPc, to_disconnect, server_open, tasksCancelled>>

\* the node is running: stop was not called
StopIdle ==
    /\ stopPc = "idle"
    /\ to_disconnect = {}
    /\ server_open = TRUE
    /\ tasksDone = {}
    /\ tasksCancelled = {}

(***************************************************************************)
(* Node._start_tcp_server (src/bndl/net/node.py)                           *)
(***************************************************************************)
\* parsed.port of an address that names no port
NoPort == 0
\* host, port = parsed.hostname, parsed.port or 5000
DefaultPort == 5000
\* for port in range(port, port + 1000)
PortRange == 1000
\* the local variable server before a port is bound
NoServer == "None"

\* the ports the configured address may name
ParsedPorts == {NoPort, DefaultPort, 7000}
\* the numbers of ports in use from the first one probed: none, a few, all
\* but the last of the range, the whole range
Unbindables == {0, 1, 2, PortRange - 1, PortRange}
\* e.errno of the OSError of asyncio.start_server
Errnos == {"EADDRINUSE", "EACCES"}

\* parsed.port or 5000
FirstPort == IF parsed_port = NoPort THEN DefaultPort ELSE parsed_port
\* the address string, by the port it names
Address(p) == <<"tcp", p>>
\* asyncio.start_server(self._serve, host, port) raises OSError
BindFails(p) == p < FirstPort + unbindable

StartRest ==
    UNCHANGED <<serveVars, schedVars, blockVars, peers, peer_table_lock, is_connected,
                conPc, discVars, stopVars, parsed_port, unbindable, bind_errno>>

\* the next round of the for loop, or its end after PortRange rounds
NextPort ==
    IF port + 1 < FirstPort + PortRange
    THEN port' = port + 1 /\ startPc' = "probe"
    ELSE port' = port /\ startPc' = "exhausted"

\* server = yield from asyncio.start_server(...); break
StartTcpBound ==
    /\ startPc = "probe"
    /\ ~BindFails(port)
    /\ probes' = probes + 1
    /\ server' = "server"
    /\ startPc' = "opened"
    /\ UNCHANGED <<port, logged, servers>>
    /\ StartRest

\* except OSError as e: if e.errno == errno.EADDRINUSE: continue
StartTcpInUse ==
    /\ startPc = "probe"
    /\ BindFails(port)
    /\ bind_errno = "EADDRINUSE"
    /\ probes' = probes + 1
    /\ NextPort
    /\ UNCHANGED <<server, logged, servers>>
    /\ StartRest

\* except OSError as e: else: logger.exception(...), and the loop goes on
StartTcpOtherError ==
    /\ startPc = "probe"
    /\ BindFails(port)
    /\ bind_errno # "EADDRINUSE"
    /\ probes' = probes + 1
    /\ logged' = TRUE
    /\ NextPort
    /\ UNCHANGED <<server, servers>>
    /\ StartRest

\* if not server: return
StartTcpReturn ==
    /\ startPc = "exhausted"
    /\ server = NoServer
    /\ startPc' = "returned"
    /\ UNCHANGED <<port, server, probes, logged, servers>>
    /\ StartRest

\* if parsed.port != port: del self.servers[address]; address = 'tcp://%s:%s'
\* and self.servers[address] = server
StartTcpRecord ==
    /\ startPc = "opened"
    /\ LET kept == IF parsed_port # port
                   THEN DOMAIN servers \ {Address(parsed_port)}
                   ELSE DOMAIN servers
           address == IF parsed_port # port THEN Address(port) ELSE Address(parsed_port)
       IN servers' = [a \in kept \cup {address} |->
                         IF a = address THEN server ELSE servers[a]]
    /\ startPc' = "started"
    /\ UNCHANGED <<port, server, probes, logged>>
    /\ StartRest

\* _start_tcp_server is called for the one configured address, with some
\* ports taken
StartInit ==
    /\ parsed_port \in ParsedPorts
    /\ unbindable \in Unbindables
    /\ bind_errno \in Errnos
    /\ startPc = "probe"
    /\ port = FirstPort
    /\ server = NoServer
    /\ probes = 0
    /\ logged = FALSE
    /\ servers = [a \in {Address(parsed_port)} |-> NoServer]

\* _start_tcp_server is not called
StartIdle ==
    /\ parsed_port = NoPort
    /\ unbindable = 0
    /\ bind_errno = "EADDRINUSE"
    /\ startPc = "idle"
    /\ port = DefaultPort
    /\ server = NoServer
    /\ probes = 0
    /\ logged = FALSE
    /\ servers = [a \in {Address(parsed_port)} |-> NoServer]

\* a node opening its TCP server
StartNext ==
    \/ StartTcpBound
    \/ StartTcpInUse
    \/ StartTcpOtherError
    \/ StartTcpReturn
    \/ StartTcpRecord

\* the nodes after construction, no message received
NetInit == NetStart /\ DiscIdle /\ StopIdle /\ StartIdle

\* a node is stopped while connections are made and presented
StopNext ==
    \/ StopSnapshot
    \/ \E p \in Ends : StopDisconnect(p)
    \/ \E p \in Ends : NotifyDone(p)
    \/ \E c \in Conns : HelloExchanged(c)
    \/ \E p \in Ends : ConnectionBroken(p)
    \/ \E p \in Ends : PeerConnectedLock(p)
    \/ \E p \in Ends : PeerConnectedLookup(p)
    \/ \E p \in Ends : PeerConnectedReject(p)
    \/ \E p \in Ends : PeerConnectedDisconnectKnown(p)
    \/ \E p \in Ends : PeerConnectedReplace(p)

\* a discovery message is handled while connections are made and presented
DiscoverNext ==
    \/ DiscoveredLock
    \/ DiscoveredLookup
    \/ \E ok \in BOOLEAN : DiscoveredConnect(ok)
    \/ DiscoveredReturn
    \/ \E c \in Conns : HelloExchanged(c)
    \/ \E p \in Ends : ConnectionBroken(p)
    \/ \E p \in Ends : PeerConnectedLock(p)
    \/ \E p \in Ends : PeerConnectedLookup(p)
    \/ \E p \in Ends : PeerConnectedReject(p)
    \/ \E p \in Ends : PeerConnectedDisconnectKnown(p)
    \/ \E p \in Ends : PeerConnectedReplace(p)

NetNext ==
    \/ \E c \in Conns : HelloExchanged(c)
    \/ \E p \in Ends : ConnectionBroken(p)
    \/ \E p \in Ends : PeerConnectedLock(p)
    \/ \E p \in Ends : PeerConnectedLookup(p)
    \/ \E p \in Ends : PeerConnectedReject(p)
    \/ \E p \in Ends : PeerConnectedDisconnectKnown(p)
    \/ \E p \in Ends : PeerConnectedReplace(p)

(***************************************************************************)
(* Peer membership: properties                                             *)
(***************************************************************************)
\* _peer_connected has run to its end for the PeerNode
Presented(p) == conPc[p] \in {"installed", "rejected", "asserted"}
\* both ends of the connection are connected
Survives(c) == \A s \in Sides : is_connected[<<c, s>>]
\* the two connections between alpha and beta went through the contest at
\* both nodes, and every close has been seen at the other end
ContestOver ==
    /\ \A p \in Ends : p[1] \in {"ab", "ba"} => Presented(p)
    /\ \A p \in Ends : is_connected[p] = is_connected[OtherEnd(p)]

C9_NoSelfEntry == \A n \in Nodes : peers[n][n] = NoPeer

\* C10: whenever the mutex of a node's peer table is free, the PeerNode in
\* the table is the only one of those presented under its name that is still
\* connected: every peer that was not kept has been disconnected.
C10_OneActiveConnection ==
    \A n \in Nodes : peer_table_lock[n] = NoHolder =>
        \A p \in Ends :
            (Owner(p) = n /\ Presented(p) /\ is_connected[p])
                => peers[n][PeerName(p)] = p

\* C10, its case: a peer was installed over an existing record of the same
\* name, the mutex is free again and the record that was replaced is
\* disconnected
C10_Witness ==
    \E p, q \in Ends :
        /\ p # q
        /\ Owner(p) = Owner(q)
        /\ PeerName(p) = PeerName(q)
        /\ peer_table_lock[Owner(p)] = NoHolder
        /\ conPc[p] = "installed"
        /\ conPc[q] = "installed"
        /\ peers[Owner(p)][PeerName(p)] = p
        /\ is_connected[p]
        /\ ~is_connected[q]

\* the loop of _discovered leaves an entry of the batch behind in this step
EntryDone == Len(handled') = Len(handled) + 1

\* C35: _discovered goes through every entry of the batch in order and then
\* returns; it never ends by an exception of connect(); a name that is in the
\* peer table is passed over, and for a name that is not in the table
\* connect() is called and ends, by returning or by an exception that is
\* logged, while _discovered holds the mutex; the mutex is held by
\* _discovered inside the with block only, so it is free again after every
\* entry, also after a logged exception.
C35_BatchHandled ==
    [][/\ discPc' # "raised"
       /\ (peer_table_lock'[Receiver] = Discoverer) <=> (discPc' \in {"locked", "connect"})
       /\ \A k \in DOMAIN handled' : handled'[k].name = discovery[k]
       /\ discPc' = "returned" => Len(handled') = Len(discovery)
       /\ EntryDone =>
            /\ peer_table_lock[Receiver] = Discoverer
            /\ peer_table_lock'[Receiver] = NoHolder
            /\ (Last(handled').what = "known") <=>
                    (peers[Receiver][Last(handled').name] # NoPeer)
            /\ Last(handled').what # "known" => discPc = "connect"]_vars

\* C35, its case: connect() to the first discovered peer raised, the
\* exception was logged, the second entry was connected to and _discovered
\* returned with the mutex free
C35_Witness ==
    /\ discPc = "returned"
    /\ Len(handled) = 2
    /\ handled[1].what = "logged"
    /\ handled[2].what = "connected"
    /\ peer_table_lock[Receiver] # Discoverer

\* the call of stop() ends in this step
StopCompletes == stopPc # "stopped" /\ stopPc' = "stopped"

\* C36: when stop() ends, the peer table of the node is empty, every peer
\* that stop() took out of the table is disconnected, the server is closed
\* and every task in _iotasks has been cancelled, also when _peer_connected
\* ran for inbound connections while stop() was suspended.
C36_StoppedClean ==
    [][StopCompletes =>
        /\ PeerValues(Stopping)' = {}
        /\ \A p \in PeerValues(Stopping) : ~is_connected'[p]
        /\ ~server_open'
        /\ IoTasks(Stopping)' \subseteq tasksCancelled']_vars

\* _start_tcp_server has ended with a server recorded
Started == startPc = "started"
\* _start_tcp_server has ended, by a return or by an exception
StartEnded == startPc \in {"started", "returned", "raised"}

\* C37: start probes at most 1000 ports, from the configured one on and as
\* long as the port is in use; the server is recorded under the address of
\* the port that was bound and the configured address is no longer a key
\* unless it is that address; and when none of the probed ports could be
\* bound, start ends with a configuration error raised.
C37_ProbeRecordOrFail ==
    /\ probes <= 1000
    /\ Started =>
        /\ probes = unbindable + 1
        /\ servers = [a \in {Address(FirstPort + unbindable)} |-> "server"]
    /\ StartEnded /\ unbindable >= 1000 => startPc = "raised"

(***************************************************************************)
(* Block manager: serve_data (src/bndl/rmi/blocks.py)                      *)
(***************************************************************************)
\* no BlockSpec yet
NoBlockSpec == [seeder |-> "", num_blocks |-> 0]

\* the bytes handed to serve_data: byte i of the data is i, so that every
\* position is told apart
DataOfLength(n) == [i \in 1..n |-> i]

Min(a, b) == IF a <= b THEN a ELSE b

\* data[a:b] of Python
Slice(seq, a, b) == SubSeq(seq, a + 1, Min(b, Len(seq)))

Parts_floor(length, size) == length \div size
\* serve_data: parts = int((length - 1) / block_size)
Parts(length, size) == (length - 1) \div size

Step_floor(length, parts) == length \div (parts + 1)
Step_blocksize(length, parts) == (length + parts) \div (parts + 1) + 1
\* serve_data: step = math.ceil(length / (parts + 1))
Step(length, parts) == (length + parts) \div (parts + 1)

\* serve_data, the for loop: parts slices of step bytes from offset on
RECURSIVE SliceLoop(_, _, _, _)
SliceLoop(seq, offset, step, parts) ==
    IF parts = 0 THEN <<>>
    ELSE <<Slice(seq, offset, offset + step)>>
         \o SliceLoop(seq, offset + step, step, parts - 1)

\* serve_data: the blocks handed to serve_blocks
SplitData(seq, size) ==
    LET length == Len(seq) IN
    IF length > size
    THEN LET parts == Parts(length, size)
             step == Step(length, parts)
         IN  SliceLoop(seq, 0, step, parts)
             \o <<Slice(seq, parts * step, length)>>
    ELSE <<seq>>

\* serve_data(name, data, block_size): the assertion on block_size, the split
\* and serve_blocks, which returns BlockSpec(self.name, name, len(blocks))
ServeData ==
    /\ servePc = "call"
    /\ IF block_size > 0
       THEN /\ served' = SplitData(data, block_size)
            /\ block_spec' = [seeder |-> "seeder",
                              num_blocks |-> Len(SplitData(data, block_size))]
            /\ servePc' = "returned"
       ELSE /\ servePc' = "AssertionError"
            /\ UNCHANGED <<served, block_spec>>
    /\ UNCHANGED <<schedVars, blockVars, netVars, data, block_size>>

\* the calls of serve_data that are followed
ServeInit ==
    /\ data \in {DataOfLength(n) : n \in 0..MaxDataLen}
    /\ block_size \in 0..MaxBlockSize
    /\ served = <<>>
    /\ block_spec = NoBlockSpec
    /\ servePc = "call"

\* serve_data is not called
ServeIdle ==
    /\ data = <<>>
    /\ block_size = 1
    /\ served = <<>>
    /\ block_spec = NoBlockSpec
    /\ servePc = "idle"

ServeNext == ServeData

(***************************************************************************)
(* serve_data: properties                                                  *)
(***************************************************************************)
\* serve_data returned
Served == servePc = "returned"

\* the concatenation of the blocks
RECURSIVE Concat(_)
Concat(blocks) ==
    IF blocks = <<>> THEN <<>> ELSE Head(blocks) \o Concat(Tail(blocks))

\* ceil(a / b)
CeilDiv(a, b) == IF a % b = 0 THEN a \div b ELSE a \div b + 1

\* the blocks are the data cut in pieces of at most block_size bytes, the last
\* one not empty
WellSplit ==
    /\ Concat(served) = data
    /\ \A k \in 1..(Len(served) - 1) : Len(served[k]) <= block_size
    /\ Len(served[Len(served)]) >= 1
    /\ Len(served[Len(served)]) <= block_size

\* C13 as stated: for every block_size > 0 the served blocks concatenate to
\* the data, all but the last are at most block_size long and the last one is
\* between 1 and block_size long.
C13_WellSplit == Served => WellSplit

\* C13: for block_size > 0 and data that is not empty, the served blocks
\* concatenate to the data, all but the last are at most block_size long and
\* the last one is between 1 and block_size long.
C13_WellSplitNonEmpty == (Served /\ data # <<>>) => WellSplit

\* C13, its case: data cut in three blocks or more
C13_Witness == Served /\ Len(served) >= 3 /\ Len(data) % block_size # 0

\* the number of blocks is ceil(len(data) / block_size) and the BlockSpec
\* advertises it
CountIsCeil ==
    /\ Len(served) = CeilDiv(Len(data), block_size)
    /\ block_spec.num_blocks = Len(served)
    /\ (block_size = Len(data) => Len(served) = 1)

\* C14 as stated: serve_data splits the data in exactly
\* ceil(len(data) / block_size) blocks and advertises that count.
C14_CountIsCeil == Served => CountIsCeil

\* C14: for data that is not empty serve_data splits the data in exactly
\* ceil(len(data) / block_size) blocks and advertises that count; data that is
\* empty is served as one empty block.
C14_CountIsCeilNonEmpty ==
    Served => IF data # <<>> THEN CountIsCeil
              ELSE served = <<(<<>>)>> /\ block_spec.num_blocks = 1

\* C14, its case: block_size = len(data) gave one block
C14_Witness ==
    Served /\ Len(data) >= 2 /\ block_size = Len(data) /\ Len(served) = 1

\* C15 as stated: when len(data) is not divisible by block_size the last
\* block is strictly shorter than every block before it.
C15_LastShorter ==
    (Served /\ Len(data) % block_size # 0) =>
        \A k \in 1..(Len(served) - 1) : Len(served[Len(served)]) < Len(served[k])

\* C15: when len(data) is not divisible by block_size the last block is never
\* longer than a block before it, and it is strictly shorter than every block
\* before it exactly when len(data) is not divisible by the number of blocks.
C15_LastNotLonger ==
    (Served /\ Len(data) % block_size # 0) =>
        \A k \in 1..(Len(served) - 1) :
            /\ Len(served[Len(served)]) <= Len(served[k])
            /\ Len(served[Len(served)]) < Len(served[k])
                   <=> Len(data) % Len(served) # 0

\* C15, its case: nine bytes in blocks of at most four are served as three
\* blocks of three
C15_Witness ==
    /\ Served
    /\ Len(data) = 9
    /\ block_size = 4
    /\ Len(served) = 3
    /\ Len(served[3]) = Len(served[1])

(***************************************************************************)
(* Specifications                                                          *)
(***************************************************************************)
\* a job is constructed; the block managers and the nodes are as constructed
InitSched == SchedInit /\ BlocksInit /\ NetInit /\ ServeIdle
\* the job scheduler executing one job
SpecSched == InitSched /\ [][SchedNext]_vars

\* jobs of every shape are executed and cancelled
InitJobs == JobsInit /\ BlocksInit /\ NetInit /\ ServeIdle
SpecJobs == InitJobs /\ [][JobsNext]_vars

\* no job runs; the block managers and the nodes are as constructed
InitBlocks == SchedIdle /\ BlocksInit /\ NetInit /\ ServeIdle
\* the block managers serving, fetching and removing one block set
SpecBlocks == InitBlocks /\ [][BlocksNext]_vars

InitDownload == SchedIdle /\ DownloadInit /\ NetInit /\ ServeIdle

SpecDownload == InitDownload /\ [][DownloadsNext]_vars

\* the nodes connecting to each other and to themselves
SpecNet == InitBlocks /\ [][NetNext]_vars

InitDiscover ==
    SchedIdle /\ BlocksInit /\ NetStart /\ DiscInit /\ StopIdle /\ StartIdle /\ ServeIdle

\* a node handling a discovery message
SpecDiscover == InitDiscover /\ [][DiscoverNext]_vars

\* a node opening the TCP server of its configured address
InitStart ==
    SchedIdle /\ BlocksInit /\ NetStart /\ DiscIdle /\ StopIdle /\ StartInit /\ ServeIdle

SpecStart == InitStart /\ [][StartNext]_vars

\* a node being stopped
SpecStop == InitBlocks /\ [][StopNext]_vars

\* no job runs, the block managers and the nodes are as constructed, and
\* serve_data is about to be called
InitServe == SchedIdle /\ BlocksInit /\ NetInit /\ ServeInit
\* serve_data splitting data in blocks
SpecServe == InitServe /\ [][ServeNext]_vars

====
